---- MODULE Spec2Model ----
(***************************************************************************)
(* Client side of the Dragabyte remote protocol and scan control:          *)
(*   - the server list of RemotePanel.tsx (connect / status events),       *)
(*   - ScanView's handleRemoteEvent with its pending list-request table,   *)
(*     watchdog timers, remote scan tracking and disk-usage requests,      *)
(*   - the ways ScanView starts and cancels a scan.                        *)
(* React state setters are applied at the end of the handler that calls    *)
(* them, refs (xxxRef.current) immediately; one action is one handler (or  *)
(* one continuation of an async handler after an await).                   *)
(***************************************************************************)
EXTENDS Integers, Sequences, FiniteSets, TLC

----------------------------------------------------------------------------
(* Bounds *)

\* number of correlation ids createRemoteRequestId hands out in one run
MaxRequests == 3

\* number of distinct progress/final snapshots a scan may report
MaxSnap == 2

\* number of local-scan listener sets subscribed at the same time
MaxListeners == 2

\* number of local scans the engine is asked for
MaxRuns == 3

\* number of list requests in one run of the listing specification
MaxListRequests == 2

\* number of children of the node a treemap lays out
MaxChildren == 3

\* largest size of a child, in bytes
MaxSize == 2

\* largest width and height of the treemap
MaxSide == 2

\* largest number of tokens of a search query
MaxTokens == 3

\* largest size of a file of the node whose largest files are listed, in bytes
MaxFileSize == 3

\* largest limit of the list of largest files
MaxLimit == 3

\* largest number of characters of a label
MaxLabel == 10

\* largest maxLength a label is shortened to
MaxLength == 12

----------------------------------------------------------------------------
(* Values *)

NoId == 0
NoServer == "none"
NoPath == "null"
NoMsg == "null"
NoSummary == [root |-> NoPath, snap |-> 0]
NoUsage == "nousage"
NoMode == "nomode"

ServerList == <<"A", "B">>
Servers == {ServerList[i] : i \in 1..Len(ServerList)}
Statuses == {"disconnected", "connecting", "connected", "error"}
Tokens == {"", " ", "tok"}
Trim(t) == IF t = " " THEN "" ELSE t

\* address host:port of a saved server; "other" matches none of them
AddressOf(s) == s
NoAddress == "noaddress"
Addresses == Servers \cup {"other", NoAddress}

RemotePaths == {"/", "/a", "/b"}
LocalFolders == {"/a"}
ScanPaths == {"/a"}
NoOs == "noos"
OsKinds == {"unix", "windows"}

Ids == 1..MaxRequests

Summaries == [root : ScanPaths, snap : 1..MaxSnap]

TimedOutMsg == "Remote list request timed out."
ListErrorMsg == "Failed to list remote folder"
RemoteErrorMsg == "Remote error"
SyncDisabledMsg == "Remote sync is disabled."
NotConnectedMsg == "No remote server connected."
SelectFolderMsg == "Select a remote folder to scan."
TokenRequiredMsg == "Token is required for authentication."
BusyMsg == "Another connection is in progress."
ConnectFailedMsg == "Connection failed"
DiskErrorMsg == "Failed to load disk usage"
ScanErrorMsg == "Remote scan error"

----------------------------------------------------------------------------
VARIABLES
    \* store: server list and remote settings
    remoteServers,          \* [Servers -> [status, token, lastMessage]]
    activeRemoteServerId,
    remoteSyncEnabled,
    \* RemotePanel
    panelError,
    connectPending,         \* servers whose connectRemote() promise is pending
    disconnectPending,      \* servers whose disconnectRemote() promise is pending
    \* ScanView: remote listing
    remoteListRequestId,    \* remoteListRequestIdRef.current
    remoteListRequestMap,   \* remoteListRequestMapRef.current: id -> path or NoPath
    remoteListTimeouts,     \* ids with an armed watchdog timer
    listSendPending,        \* top-level list requests whose send promise is pending
    remoteTree,             \* path -> [children, listed (children # null), loading, error, isDir]
    remoteTreeRoots,
    remoteFocusPath,
    remoteListLoading,
    remoteListError,
    remoteOs,
    isRemoteScanOpen,
    selectedRemotePath,
    \* ScanView: scanning
    summary,
    selectedPath,
    isScanning,
    scanStatus,
    error,
    scanHistory,
    remoteRequestId,        \* remoteRequestIdRef.current
    activeScanPath,
    activeScanMode,
    lastScanPath,
    lastScanMode,
    unlisten,               \* unlistenRef.current holds the unlisten function of a local scan
    startPending,           \* startScan() calls whose scan_path command has not returned
    leaked,                 \* listener sets still subscribed that no reference reaches
    scanCompleteTimeout,    \* the 1500 ms complete -> idle timer is armed
    scanRootPath,           \* useMemo(..., [summary])
    sendPending,            \* a command is pending whose rejection calls failScan
    hasAutoScan,            \* hasAutoScanRef.current
    cancelSent,             \* observation: a cancel was issued since the last scan request
    terminated,             \* observation: remote scan ids whose terminal event was handled
    \* ScanView: disk usage
    diskUsage,
    diskUsageError,
    remoteDiskRequestId,    \* remoteDiskRequestIdRef.current
    diskEffectDeps,         \* dependency values the disk-usage effect last ran with
    localDiskPending,       \* getDiskUsage() promise pending and still active
    \* request ids
    nextId,
    \* observation: the handler that ran last and what it saw
    last,
    \* Treemap
    children,               \* rootNode.children
    width,
    height,
    rects,                  \* the memoised result of recursiveSplit
    rendered,
    \* search box
    searchQuery,
    searchParams,           \* useMemo(parseSearchQuery, [searchQuery])
    searchParsed,
    searchedEntry,          \* the entry matchesSearchEntry was last called with
    isMatch,                \* and its result
    \* filter form
    filterInputs,
    scanFilters,            \* useMemo(..., [the inputs])
    filterMatchers,         \* useMemo(buildFilterMatchers, [scanFilters])
    filtersBuilt,
    filteredFile,           \* the file matchesFilterFile was last called with
    isAccepted,             \* and its result
    \* scan engine
    diskSize,               \* the size of each file of the volume
    excludedExts,               \* options.filters.excludeExtensions of the scan
    engineStatus,           \* idle, running, complete, error or cancelled
    cancelToken,            \* the shared cancellation flag
    workQueue,              \* directories waiting for a worker
    created,                \* directories whose ScanNode exists
    nodeFiles,              \* ScanNode.files
    nodeChildren,           \* ScanNode.children
    nodeSize,               \* ScanNode.sizeBytes
    nodeFileCount,          \* ScanNode.fileCount
    nodeDirCount,           \* ScanNode.dirCount
    emitted,                \* the last ScanSummary sent to the consumer
    \* local scans of the engine and the restart timer
    scanRestartTimeout,     \* scanRestartTimeoutRef.current holds an armed timer
    restartPending,         \* the timer callback awaits cancelScan()
    restartPath,            \* the path the timer callback read
    engineRuns,             \* the state of each scan the engine was asked for
    currentRun,             \* the scan the client started last
    applied,                \* observation: the run and kind of the event just handled
    \* ScanView: selection history
    selectionHistory,
    selectionHistoryIndex,
    historyIndexRef,        \* historyIndexRef.current
    selectedFilePath,
    \* ScanView: largest files of the active node
    activeNode,             \* the ScanNode the list is computed for
    largestLimit,
    shouldInclude,          \* the files the include predicate accepts
    largestFiles,           \* the result of getLargestFilesForNode
    largestComputed,
    \* truncated labels
    labelValue,             \* the text passed to truncateMiddle
    labelMaxLength,         \* the maxLength passed with it, in halves
    labelText,              \* the result
    labelTruncated

connVars == <<remoteServers, activeRemoteServerId, remoteSyncEnabled, panelError,
              connectPending, disconnectPending>>
listVars == <<remoteListRequestId, remoteListRequestMap, remoteListTimeouts,
              listSendPending,
              remoteTree, remoteTreeRoots, remoteFocusPath, remoteListLoading,
              remoteListError, remoteOs, isRemoteScanOpen, selectedRemotePath>>
scanVars == <<summary, selectedPath, isScanning, scanStatus, error, scanHistory,
              remoteRequestId, activeScanPath, activeScanMode, lastScanPath,
              lastScanMode, unlisten, startPending, leaked, scanCompleteTimeout,
              scanRootPath, sendPending, hasAutoScan, cancelSent, terminated>>
diskVars == <<diskUsage, diskUsageError, remoteDiskRequestId, diskEffectDeps,
              localDiskPending>>
appVars == <<connVars, listVars, scanVars, diskVars, nextId, last>>
treemapVars == <<children, width, height, rects, rendered>>
searchVars == <<searchQuery, searchParams, searchParsed, searchedEntry, isMatch>>
filterVars == <<filterInputs, scanFilters, filterMatchers, filtersBuilt, filteredFile,
                isAccepted>>
engineVars == <<diskSize, excludedExts, engineStatus, cancelToken, workQueue, created,
                nodeFiles, nodeChildren, nodeSize, nodeFileCount, nodeDirCount, emitted>>
runVars == <<scanRestartTimeout, restartPending, restartPath, engineRuns, currentRun,
             applied>>
selectionVars == <<selectionHistory, selectionHistoryIndex, historyIndexRef,
                   selectedFilePath>>
largestVars == <<activeNode, largestLimit, shouldInclude, largestFiles, largestComputed>>
labelVars == <<labelValue, labelMaxLength, labelText, labelTruncated>>
viewVars == <<selectionVars, largestVars, labelVars>>
pureVars == <<treemapVars, searchVars, filterVars, engineVars, runVars, viewVars>>
vars == <<appVars, pureVars>>

----------------------------------------------------------------------------
(* Derived values *)

\* activeRemoteServer?.status === "connected"
isRemoteConnected ==
    /\ activeRemoteServerId \in Servers
    /\ remoteServers[activeRemoteServerId].status = "connected"

\* first server of the list whose status is connecting, or NoServer
connectingServerId ==
    LET idx == {i \in 1..Len(ServerList) : remoteServers[ServerList[i]].status = "connecting"}
    IN  IF idx = {} THEN NoServer
        ELSE ServerList[CHOOSE i \in idx : \A j \in idx : i <= j]

\* findServerByAddress / resolveRemoteServerByAddress
findServerByAddress(address) ==
    IF address \in Servers THEN address ELSE NoServer

\* the observation of a handler nothing is stated about
NoObs == [op |-> "other", id |-> NoId, path |-> NoPath]

\* what the observation record holds: the handler that ran last, the request
\* id it sent or received, and the server or path it was about
Obs(op, id, path) == [op |-> op, id |-> id, path |-> path]

----------------------------------------------------------------------------
(* Store operations on the server list *)

updateRemoteServerStatus(servers, id, status, message) ==
    [servers EXCEPT ![id] = [@ EXCEPT !.status = status, !.lastMessage = message]]

\* resetConnectingServers: every other server that is connecting goes back to
\* disconnected
resetConnectingServers(servers, activeId) ==
    [s \in Servers |->
        IF s # activeId /\ servers[s].status = "connecting"
        THEN [servers[s] EXCEPT !.status = "disconnected", !.lastMessage = NoMsg]
        ELSE servers[s]]

----------------------------------------------------------------------------
(* RemotePanel *)

\* a connect check that lets every attempt through
NoConnectionInProgress(s) == FALSE

\* the second check of handleConnect: another server is connecting
AnotherConnectionInProgress(s) ==
    connectingServerId # NoServer /\ connectingServerId # s

\* handleConnect(server), up to the await of connectRemote; the button calls it
\* for a server that is not connected
HandleConnect(s) ==
    /\ remoteServers[s].status # "connected"
    /\ last' = Obs("connect", NoId, s)
    /\ IF Trim(remoteServers[s].token) = ""
       THEN /\ panelError' = TokenRequiredMsg
            /\ UNCHANGED <<remoteServers, activeRemoteServerId, connectPending>>
       ELSE IF AnotherConnectionInProgress(s)
       THEN /\ panelError' = BusyMsg
            /\ UNCHANGED <<remoteServers, activeRemoteServerId, connectPending>>
       ELSE /\ panelError' = NoMsg
            /\ activeRemoteServerId' = s
            /\ remoteServers' =
                 updateRemoteServerStatus(resetConnectingServers(remoteServers, s),
                                          s, "connecting", NoMsg)
            /\ connectPending' = connectPending \cup {s}
    /\ UNCHANGED <<remoteSyncEnabled, disconnectPending, listVars, scanVars,
                   diskVars, nextId>>

\* connectRemote(server) resolved: handleConnect returns
ConnectResolved(s) ==
    /\ s \in connectPending
    /\ connectPending' = connectPending \ {s}
    /\ last' = NoObs
    /\ UNCHANGED <<remoteServers, activeRemoteServerId, remoteSyncEnabled, panelError,
                   disconnectPending, listVars, scanVars, diskVars, nextId>>

\* the catch branch without the status update
ConnectRejectedSilently(s) ==
    /\ s \in connectPending
    /\ connectPending' = connectPending \ {s}
    /\ panelError' = ConnectFailedMsg
    /\ last' = Obs("connect-rejected", NoId, s)
    /\ UNCHANGED <<remoteServers, activeRemoteServerId, remoteSyncEnabled,
                   disconnectPending, listVars, scanVars, diskVars, nextId>>

\* connectRemote(server) rejected: the catch branch of handleConnect
ConnectRejected(s) ==
    /\ s \in connectPending
    /\ connectPending' = connectPending \ {s}
    /\ remoteServers' = updateRemoteServerStatus(remoteServers, s, "error", ConnectFailedMsg)
    /\ panelError' = ConnectFailedMsg
    /\ last' = Obs("connect-rejected", NoId, s)
    /\ UNCHANGED <<activeRemoteServerId, remoteSyncEnabled, disconnectPending,
                   listVars, scanVars, diskVars, nextId>>

\* handleDisconnect(server), up to the await of disconnectRemote
HandleDisconnect(s) ==
    /\ remoteServers[s].status = "connected"
    /\ s \notin disconnectPending
    /\ panelError' = NoMsg
    /\ activeRemoteServerId' = s
    /\ disconnectPending' = disconnectPending \cup {s}
    /\ last' = NoObs
    /\ UNCHANGED <<remoteServers, remoteSyncEnabled, connectPending, listVars,
                   scanVars, diskVars, nextId>>

\* disconnectRemote() settled: the rest of handleDisconnect
DisconnectSettled(s, ok) ==
    /\ s \in disconnectPending
    /\ disconnectPending' = disconnectPending \ {s}
    /\ IF ok
       THEN /\ remoteServers' = updateRemoteServerStatus(remoteServers, s, "disconnected", NoMsg)
            /\ UNCHANGED panelError
       ELSE /\ remoteServers' = updateRemoteServerStatus(remoteServers, s, "error", ConnectFailedMsg)
            /\ panelError' = ConnectFailedMsg
    /\ last' = NoObs
    /\ UNCHANGED <<activeRemoteServerId, remoteSyncEnabled, connectPending, listVars,
                   scanVars, diskVars, nextId>>

\* handleUpdateToken(server, value)
HandleUpdateToken(s, value) ==
    /\ remoteServers[s].token # value
    /\ remoteServers' = [remoteServers EXCEPT ![s].token = value]
    /\ last' = NoObs
    /\ UNCHANGED <<activeRemoteServerId, remoteSyncEnabled, panelError, connectPending,
                   disconnectPending, listVars, scanVars, diskVars, nextId>>

\* the Sync button: setRemoteSyncEnabled(!remoteSyncEnabled)
ToggleSync ==
    /\ remoteSyncEnabled' = ~remoteSyncEnabled
    /\ last' = NoObs
    /\ UNCHANGED <<remoteServers, activeRemoteServerId, panelError, connectPending,
                   disconnectPending, listVars, scanVars, diskVars, nextId>>

\* the listenRemoteStatus callback for a pushed {status, address, message}
RemoteStatusEvent(status, address, message) ==
    LET matched == findServerByAddress(address)
        targetId == IF matched # NoServer THEN matched ELSE activeRemoteServerId
    IN  /\ last' = NoObs
        /\ IF targetId = NoServer
           THEN UNCHANGED <<remoteServers, activeRemoteServerId>>
           ELSE /\ remoteServers' =
                     updateRemoteServerStatus(remoteServers, targetId, status, message)
                /\ activeRemoteServerId' =
                     IF status = "connected" /\ matched # NoServer
                     THEN matched ELSE activeRemoteServerId
        /\ UNCHANGED <<remoteSyncEnabled, panelError, connectPending, disconnectPending,
                       listVars, scanVars, diskVars, nextId>>

\* RemotePanel's requestRemoteStatus effect: the reply to its latest query
PanelStatusReply(connected) ==
    /\ activeRemoteServerId # NoServer
    /\ last' = NoObs
    /\ IF connected
       THEN /\ remoteServers' = updateRemoteServerStatus(remoteServers,
                                     activeRemoteServerId, "connected", NoMsg)
            /\ UNCHANGED activeRemoteServerId
       ELSE /\ remoteServers' = updateRemoteServerStatus(remoteServers,
                                     activeRemoteServerId, "disconnected", NoMsg)
            /\ activeRemoteServerId' = NoServer
    /\ UNCHANGED <<remoteSyncEnabled, panelError, connectPending, disconnectPending,
                   listVars, scanVars, diskVars, nextId>>

\* ScanView's requestRemoteStatus effect: the reply to its latest query
ViewStatusReply(connected, address) ==
    LET matched == findServerByAddress(address)
    IN  /\ last' = NoObs
        /\ IF connected
           THEN IF matched # NoServer
                THEN /\ remoteServers' = updateRemoteServerStatus(remoteServers, matched,
                                                                  "connected", NoMsg)
                     /\ activeRemoteServerId' = matched
                ELSE IF activeRemoteServerId # NoServer
                THEN /\ remoteServers' = updateRemoteServerStatus(remoteServers,
                                              activeRemoteServerId, "connected", NoMsg)
                     /\ UNCHANGED activeRemoteServerId
                ELSE UNCHANGED <<remoteServers, activeRemoteServerId>>
           ELSE /\ remoteServers' =
                     [s \in Servers |->
                         IF remoteServers[s].status # "disconnected"
                         THEN [remoteServers[s] EXCEPT !.status = "disconnected",
                                                       !.lastMessage = NoMsg]
                         ELSE remoteServers[s]]
                /\ activeRemoteServerId' = NoServer
        /\ UNCHANGED <<remoteSyncEnabled, panelError, connectPending, disconnectPending,
                       listVars, scanVars, diskVars, nextId>>

----------------------------------------------------------------------------
(* Remote listing *)

\* the directory entries a list-complete payload carries for a path
Entries(path) ==
    IF path = "/" \/ path = NoPath
    THEN <<[path |-> "/a", isDir |-> TRUE], [path |-> "/b", isDir |-> FALSE]>>
    ELSE <<>>

\* payload.data of list-complete: absent, or {entries, os, path}
NoListData == [path |-> NoPath, os |-> NoOs, entries |-> <<>>]
ListDatas ==
    {NoListData} \cup
    {[path |-> p, os |-> o, entries |-> Entries(p)] :
        p \in RemotePaths \cup {NoPath}, o \in OsKinds}

EntryPaths(entries) == [i \in 1..Len(entries) |-> entries[i].path]

\* a remote-tree node created or reset for a request
LoadingNode(tree, path) ==
    IF path \in DOMAIN tree
    THEN [tree[path] EXCEPT !.loading = TRUE, !.error = NoMsg]
    ELSE [children |-> <<>>, listed |-> FALSE, loading |-> TRUE, error |-> NoMsg,
          isDir |-> TRUE]

\* the setRemoteTree updater of list-complete
TreeWithListing(tree, entries, listPath) ==
    LET entryAt(p) == CHOOSE i \in 1..Len(entries) :
                        /\ entries[i].path = p
                        /\ \A j \in 1..Len(entries) : entries[j].path = p => j <= i
        entryDom == {entries[i].path : i \in 1..Len(entries)}
        withEntries ==
            [p \in DOMAIN tree \cup entryDom |->
                IF p \in entryDom
                THEN [children |-> IF p \in DOMAIN tree THEN tree[p].children ELSE <<>>,
                      listed |-> IF p \in DOMAIN tree THEN tree[p].listed ELSE FALSE,
                      loading |-> FALSE, error |-> NoMsg,
                      isDir |-> entries[entryAt(p)].isDir]
                ELSE tree[p]]
    IN  IF listPath = NoPath THEN withEntries
        ELSE [p \in DOMAIN withEntries \cup {listPath} |->
                IF p = listPath
                THEN [children |-> EntryPaths(entries), listed |-> TRUE,
                      loading |-> FALSE, error |-> NoMsg, isDir |-> TRUE]
                ELSE withEntries[p]]

\* a tree update that leaves the failed node as it was
TreeUntouched(tree, requestPath, message) == tree

\* the setRemoteTree updater of list-error, error and the watchdog
TreeWithError(tree, requestPath, message) ==
    IF requestPath \in DOMAIN tree
    THEN [tree EXCEPT ![requestPath] = [@ EXCEPT !.loading = FALSE, !.error = message]]
    ELSE tree

DropKey(f, k) == [x \in DOMAIN f \ {k} |-> f[x]]

\* requestRemoteListing(path)
requestRemoteListing(path) ==
    IF ~remoteSyncEnabled
    THEN /\ remoteListError' = SyncDisabledMsg
         /\ UNCHANGED <<remoteListRequestId, remoteListRequestMap, remoteListTimeouts,
                        listSendPending, remoteTree, remoteTreeRoots, remoteFocusPath, remoteListLoading,
                        remoteOs, nextId>>
    ELSE IF ~isRemoteConnected
    THEN /\ remoteListError' = NotConnectedMsg
         /\ UNCHANGED <<remoteListRequestId, remoteListRequestMap, remoteListTimeouts,
                        listSendPending, remoteTree, remoteTreeRoots, remoteFocusPath, remoteListLoading,
                        remoteOs, nextId>>
    ELSE /\ nextId <= MaxRequests
         /\ nextId' = nextId + 1
         /\ remoteListRequestId' = nextId
         /\ remoteListRequestMap' =
              [i \in DOMAIN remoteListRequestMap \cup {nextId} |->
                  IF i = nextId THEN path ELSE remoteListRequestMap[i]]
         /\ remoteListTimeouts' = remoteListTimeouts \cup {nextId}
         /\ IF path = NoPath
            THEN /\ remoteListLoading' = TRUE
                 /\ remoteListError' = NoMsg
                 /\ listSendPending' = listSendPending \cup {nextId}
                 /\ UNCHANGED remoteTree
            ELSE /\ remoteTree' =
                      [p \in DOMAIN remoteTree \cup {path} |->
                          IF p = path THEN LoadingNode(remoteTree, path)
                                      ELSE remoteTree[p]]
                 /\ UNCHANGED <<remoteListLoading, remoteListError, listSendPending>>
         /\ remoteFocusPath' = path
         /\ UNCHANGED <<remoteTreeRoots, remoteOs>>

\* a path typed into the dialog, a breadcrumb or the root button
GoRemotePath(path) ==
    /\ isRemoteScanOpen
    /\ last' = Obs("list-request", IF remoteSyncEnabled /\ isRemoteConnected
                                   THEN nextId ELSE NoId, NoPath)
    /\ requestRemoteListing(path)
    /\ UNCHANGED <<connVars, isRemoteScanOpen, selectedRemotePath, scanVars, diskVars>>

\* the timeout callback registered by requestRemoteListing for requestId
ListTimeout(requestId) ==
    LET requestPath == IF requestId \in DOMAIN remoteListRequestMap
                       THEN remoteListRequestMap[requestId] ELSE NoPath
    IN  /\ requestId \in remoteListTimeouts
        /\ last' = Obs("list-timeout", requestId, NoPath)
        /\ remoteListRequestMap' = DropKey(remoteListRequestMap, requestId)
        /\ remoteListTimeouts' = remoteListTimeouts \ {requestId}
        /\ IF requestPath = NoPath
           THEN /\ remoteListLoading' = FALSE
                /\ remoteListError' = TimedOutMsg
                /\ UNCHANGED remoteTree
           ELSE /\ remoteTree' = TreeWithError(remoteTree, requestPath, TimedOutMsg)
                /\ UNCHANGED <<remoteListLoading, remoteListError>>
        /\ UNCHANGED <<connVars, remoteListRequestId, listSendPending, remoteTreeRoots,
                       remoteFocusPath, remoteOs, isRemoteScanOpen, selectedRemotePath,
                       scanVars, diskVars, nextId>>

\* the id check of list-complete against remoteListRequestIdRef.current
ListIdMismatch(id) ==
    id # NoId /\ remoteListRequestId # NoId /\ id # remoteListRequestId

\* handleRemoteEvent, event list-complete
OnListComplete(id, data) ==
    /\ last' = Obs(IF data = NoListData THEN "list-complete-nodata" ELSE "list-complete",
                   id, data.path)
    /\ IF ~remoteSyncEnabled \/ ListIdMismatch(id)
       THEN UNCHANGED listVars
       ELSE IF data = NoListData
       THEN /\ remoteListLoading' = FALSE
            /\ remoteListError' = NoMsg
            /\ UNCHANGED <<remoteListRequestId, remoteListRequestMap, remoteListTimeouts,
                           listSendPending, remoteTree, remoteTreeRoots, remoteFocusPath,
                           remoteOs, isRemoteScanOpen, selectedRemotePath>>
       ELSE LET requestPath == IF id # NoId /\ id \in DOMAIN remoteListRequestMap
                               THEN remoteListRequestMap[id] ELSE NoPath
                normalizedListPath == IF data.os = "windows" /\ data.path = "/"
                                      THEN NoPath ELSE data.path
                listPath == IF normalizedListPath # NoPath THEN normalizedListPath
                            ELSE requestPath
            IN  /\ remoteOs' = data.os
                /\ remoteFocusPath' = listPath
                /\ IF id # NoId
                   THEN /\ remoteListRequestMap' = DropKey(remoteListRequestMap, id)
                        /\ remoteListTimeouts' = remoteListTimeouts \ {id}
                   ELSE UNCHANGED <<remoteListRequestMap, remoteListTimeouts>>
                /\ remoteTree' = TreeWithListing(remoteTree, data.entries, listPath)
                /\ remoteTreeRoots' =
                     IF requestPath = NoPath /\ listPath = "/" THEN <<"/">>
                     ELSE IF requestPath = NoPath /\ listPath = NoPath
                     THEN EntryPaths(data.entries)
                     ELSE remoteTreeRoots
                /\ IF requestPath = NoPath
                   THEN /\ remoteListLoading' = FALSE
                        /\ remoteListError' = NoMsg
                   ELSE UNCHANGED <<remoteListLoading, remoteListError>>
                /\ UNCHANGED <<remoteListRequestId, listSendPending, isRemoteScanOpen,
                               selectedRemotePath>>
    /\ UNCHANGED <<connVars, scanVars, diskVars, nextId>>

\* handleRemoteEvent, events list-error (generic = FALSE) and error (generic = TRUE)
OnListError(id, generic) ==
    LET requestPath == IF id # NoId /\ id \in DOMAIN remoteListRequestMap
                       THEN remoteListRequestMap[id] ELSE NoPath
        message == IF generic THEN RemoteErrorMsg ELSE ListErrorMsg
    IN  /\ last' = Obs(IF generic THEN "error" ELSE "list-error", id, NoPath)
        /\ IF ~remoteSyncEnabled
           THEN UNCHANGED listVars
           ELSE /\ IF id # NoId
                   THEN /\ remoteListRequestMap' = DropKey(remoteListRequestMap, id)
                        /\ remoteListTimeouts' = remoteListTimeouts \ {id}
                        /\ remoteTree' =
                             IF requestPath # NoPath
                             THEN TreeWithError(remoteTree, requestPath, message)
                             ELSE remoteTree
                   ELSE UNCHANGED <<remoteListRequestMap, remoteListTimeouts, remoteTree>>
                /\ IF generic \/ id = NoId
                   THEN /\ remoteListLoading' = FALSE
                        /\ remoteListError' = message
                   ELSE UNCHANGED <<remoteListLoading, remoteListError>>
                /\ UNCHANGED <<remoteListRequestId, listSendPending, remoteTreeRoots,
                               remoteFocusPath, remoteOs, isRemoteScanOpen,
                               selectedRemotePath>>
        /\ UNCHANGED <<connVars, scanVars, diskVars, nextId>>

\* requestRemoteList(requestId, path) settled for a top-level request; a rejection
\* runs the catch callback of requestRemoteListing
ListSendSettled(requestId, ok) ==
    /\ requestId \in listSendPending
    /\ listSendPending' = listSendPending \ {requestId}
    /\ last' = NoObs
    /\ IF ok
       THEN UNCHANGED <<remoteListLoading, remoteListError>>
       ELSE /\ remoteListLoading' = FALSE
            /\ remoteListError' = ConnectFailedMsg
    /\ UNCHANGED <<connVars, remoteListRequestId, remoteListRequestMap,
                   remoteListTimeouts, remoteTree, remoteTreeRoots, remoteFocusPath,
                   remoteOs, isRemoteScanOpen, selectedRemotePath, scanVars, diskVars,
                   nextId>>

\* a node of the remote tree the dialog can show
Visible(path) ==
    /\ path \in DOMAIN remoteTree
    /\ \/ \E i \in 1..Len(remoteTreeRoots) : remoteTreeRoots[i] = path
       \/ \E q \in DOMAIN remoteTree :
             /\ remoteTree[q].listed
             /\ \E i \in 1..Len(remoteTree[q].children) : remoteTree[q].children[i] = path

\* toggleRemoteTreeNode(path) on a collapsed directory that was never listed
ToggleRemoteTreeNode(path) ==
    /\ isRemoteScanOpen
    /\ Visible(path)
    /\ remoteTree[path].isDir
    /\ ~remoteTree[path].listed
    /\ ~remoteTree[path].loading
    /\ last' = Obs("list-request", IF remoteSyncEnabled /\ isRemoteConnected
                                   THEN nextId ELSE NoId, NoPath)
    /\ requestRemoteListing(path)
    /\ UNCHANGED <<connVars, isRemoteScanOpen, selectedRemotePath, scanVars, diskVars>>

\* click on a node of the remote tree
SelectRemotePath(path) ==
    /\ isRemoteScanOpen
    /\ Visible(path)
    /\ selectedRemotePath' = path
    /\ remoteFocusPath' = path
    /\ last' = NoObs
    /\ UNCHANGED <<connVars, remoteListRequestId, remoteListRequestMap,
                   remoteListTimeouts, listSendPending, remoteTree, remoteTreeRoots,
                   remoteListLoading, remoteListError, remoteOs, isRemoteScanOpen,
                   scanVars, diskVars, nextId>>

\* the Close buttons of the remote-scan dialog
CloseRemoteScanModal ==
    /\ isRemoteScanOpen
    /\ isRemoteScanOpen' = FALSE
    /\ last' = NoObs
    /\ UNCHANGED <<connVars, remoteListRequestId, remoteListRequestMap,
                   remoteListTimeouts, listSendPending, remoteTree, remoteTreeRoots,
                   remoteFocusPath, remoteListLoading, remoteListError, remoteOs,
                   selectedRemotePath, scanVars, diskVars, nextId>>

----------------------------------------------------------------------------
(* Scanning *)

\* number of entries the scan history keeps
MaxHistory == 10

Remove(seq, x) == SelectSeq(seq, LAMBDA y : y # x)

\* the path put first without removing it from the rest
addWithoutFilter(history, path) ==
    SubSeq(<<path>> \o history, 1,
           IF Len(history) + 1 < MaxHistory THEN Len(history) + 1 ELSE MaxHistory)

\* addScanHistory(path) of the UI store
addScanHistory(history, path) ==
    SubSeq(<<path>> \o Remove(history, path), 1,
           IF Len(Remove(history, path)) + 1 < MaxHistory
           THEN Len(Remove(history, path)) + 1 ELSE MaxHistory)

\* payload.data of a scan event after toScanSummary: a summary or nothing
ScanDatas == Summaries \cup {NoSummary}

\* clearListeners(): call and drop the unlisten function
clearListeners == unlisten' = FALSE

\* applySummary(payload), with the scanRootPath memo recomputed for the new summary
applySummary(payload) ==
    /\ summary' = payload
    /\ selectedPath' = IF selectedPath # NoPath THEN selectedPath ELSE payload.root
    /\ scanRootPath' = payload.root

\* finishScan(payload)
finishScan(payload) ==
    /\ applySummary(payload)
    /\ scanHistory' = addScanHistory(scanHistory, payload.root)
    /\ isScanning' = FALSE
    /\ scanStatus' = "complete"
    /\ clearListeners
    /\ activeScanPath' = NoPath
    /\ activeScanMode' = NoMode
    /\ scanCompleteTimeout' = TRUE
    /\ UNCHANGED error

\* failScan(message)
failScan(message) ==
    /\ error' = message
    /\ isScanning' = FALSE
    /\ scanStatus' = "idle"
    /\ clearListeners
    /\ activeScanPath' = NoPath
    /\ activeScanMode' = NoMode
    /\ scanCompleteTimeout' = FALSE
    /\ UNCHANGED <<summary, selectedPath, scanRootPath, scanHistory>>

\* cancelScanRun(message)
cancelScanRun ==
    /\ isScanning' = FALSE
    /\ scanStatus' = "idle"
    /\ clearListeners
    /\ activeScanPath' = NoPath
    /\ activeScanMode' = NoMode
    /\ scanCompleteTimeout' = FALSE
    /\ UNCHANGED <<summary, selectedPath, scanRootPath, scanHistory, error>>

\* the scan state a handler leaves alone when it returns early
ScanStateUnchanged ==
    UNCHANGED <<summary, selectedPath, scanRootPath, scanHistory, error, isScanning,
                scanStatus, unlisten, activeScanPath, activeScanMode,
                scanCompleteTimeout>>

\* resetScanState(), with the scanRootPath memo recomputed when the summary is dropped
resetScanState(newActivePath) ==
    /\ summary' = NoSummary
    /\ selectedPath' = NoPath
    /\ isScanning' = TRUE
    /\ scanStatus' = "scanning"
    /\ error' = NoMsg
    /\ diskUsage' = NoUsage
    /\ diskUsageError' = NoMsg
    /\ scanRootPath' = IF summary # NoSummary THEN newActivePath ELSE scanRootPath

\* an id check that lets every scan event through
NoScanIdCheck(id) == FALSE

\* the id check of the scan events against remoteRequestIdRef.current
ScanIdMismatch(id) ==
    id # NoId /\ remoteRequestId # NoId /\ id # remoteRequestId

\* the observation of a terminal event handled for the tracked request
Terminate(id) ==
    IF remoteSyncEnabled /\ id # NoId /\ id = remoteRequestId
    THEN terminated \cup {id} ELSE terminated

\* handleRemoteEvent, event scan-progress
OnScanProgress(id, data) ==
    /\ last' = Obs("scan-progress", id, NoPath)
    /\ IF ~remoteSyncEnabled \/ ScanIdMismatch(id) \/ data = NoSummary
       THEN UNCHANGED <<summary, selectedPath, scanRootPath>>
       ELSE applySummary(data)
    /\ UNCHANGED <<connVars, listVars, diskVars, nextId, isScanning, scanStatus, error,
                   scanHistory, remoteRequestId, activeScanPath, activeScanMode,
                   lastScanPath, lastScanMode, unlisten, startPending, leaked,
                   scanCompleteTimeout, sendPending, hasAutoScan, cancelSent, terminated>>

\* handleRemoteEvent, event scan-complete
OnScanComplete(id, data) ==
    /\ last' = Obs("scan-complete", id, NoPath)
    /\ IF ~remoteSyncEnabled \/ ScanIdMismatch(id)
       THEN ScanStateUnchanged /\ UNCHANGED remoteRequestId
       ELSE /\ IF data = NoSummary THEN ScanStateUnchanged ELSE finishScan(data)
            /\ remoteRequestId' = NoId
    /\ terminated' = Terminate(id)
    /\ UNCHANGED <<connVars, listVars, diskVars, nextId, lastScanPath, lastScanMode,
                   startPending, leaked, sendPending, hasAutoScan, cancelSent>>

\* handleRemoteEvent, event scan-error
OnScanError(id) ==
    /\ last' = Obs("scan-error", id, NoPath)
    /\ IF ~remoteSyncEnabled \/ ScanIdMismatch(id)
       THEN ScanStateUnchanged /\ UNCHANGED remoteRequestId
       ELSE /\ failScan(ScanErrorMsg)
            /\ remoteRequestId' = NoId
    /\ terminated' = Terminate(id)
    /\ UNCHANGED <<connVars, listVars, diskVars, nextId, lastScanPath, lastScanMode,
                   startPending, leaked, sendPending, hasAutoScan, cancelSent>>

\* handleRemoteEvent, event scan-cancelled
OnScanCancelled(id) ==
    /\ last' = Obs("scan-cancelled", id, NoPath)
    /\ IF ~remoteSyncEnabled \/ ScanIdMismatch(id)
       THEN ScanStateUnchanged /\ UNCHANGED remoteRequestId
       ELSE /\ cancelScanRun
            /\ remoteRequestId' = NoId
    /\ terminated' = Terminate(id)
    /\ UNCHANGED <<connVars, listVars, diskVars, nextId, lastScanPath, lastScanMode,
                   startPending, leaked, sendPending, hasAutoScan, cancelSent>>

\* listener sets of local scans that are subscribed to the scan events
Listening == startPending + leaked + (IF unlisten THEN 1 ELSE 0)

\* the scan started without clearing the timer of the scan before
startScanKeepingTimeout(folder) ==
    /\ startPending + leaked < MaxListeners
    /\ UNCHANGED scanCompleteTimeout
    /\ activeScanPath' = folder
    /\ activeScanMode' = "local"
    /\ lastScanPath' = folder
    /\ lastScanMode' = "local"
    /\ clearListeners
    /\ resetScanState(folder)
    /\ startPending' = startPending + 1
    /\ cancelSent' = FALSE
    /\ UNCHANGED <<scanHistory, remoteRequestId, leaked, sendPending, terminated>>

\* startScanWithFolder(folder) up to the point where startScan has subscribed its
\* four listeners and issued the scan_path command
startScanWithFolder(folder) ==
    /\ startPending + leaked < MaxListeners
    /\ scanCompleteTimeout' = FALSE
    /\ activeScanPath' = folder
    /\ activeScanMode' = "local"
    /\ lastScanPath' = folder
    /\ lastScanMode' = "local"
    /\ clearListeners
    /\ resetScanState(folder)
    /\ startPending' = startPending + 1
    /\ cancelSent' = FALSE
    /\ UNCHANGED <<scanHistory, remoteRequestId, leaked, sendPending, terminated>>

\* startScan resolved: unlistenRef.current = the unlisten function
StartScanReturned ==
    /\ startPending > 0
    /\ startPending' = startPending - 1
    /\ unlisten' = TRUE
    /\ leaked' = IF unlisten THEN leaked + 1 ELSE leaked
    /\ last' = NoObs
    /\ UNCHANGED <<connVars, listVars, diskVars, nextId, summary, selectedPath,
                   isScanning, scanStatus, error, scanHistory, remoteRequestId,
                   activeScanPath, activeScanMode, lastScanPath, lastScanMode,
                   scanCompleteTimeout, scanRootPath, sendPending, hasAutoScan,
                   cancelSent, terminated>>

\* startScan rejected (the scan_path command failed): the catch branch
StartScanFailed ==
    /\ startPending > 0
    /\ startPending' = startPending - 1
    /\ leaked' = leaked + 1
    /\ failScan(ConnectFailedMsg)
    /\ last' = NoObs
    /\ UNCHANGED <<connVars, listVars, diskVars, nextId, remoteRequestId, lastScanPath,
                   lastScanMode, sendPending, hasAutoScan, cancelSent, terminated>>

\* an event of a local scan delivered to the handlers startScan subscribed
LocalScanEvent(kind, data) ==
    /\ Listening > 0
    /\ last' = NoObs
    /\ CASE kind = "scan-progress" ->
              /\ applySummary(data)
              /\ UNCHANGED <<scanHistory, error, isScanning, scanStatus, unlisten,
                             activeScanPath, activeScanMode, scanCompleteTimeout>>
         [] kind = "scan-complete" -> finishScan(data)
         [] kind = "scan-error" -> failScan(ScanErrorMsg)
         [] kind = "scan-cancelled" -> cancelScanRun
    /\ UNCHANGED <<connVars, listVars, diskVars, nextId, remoteRequestId, lastScanPath,
                   lastScanMode, startPending, leaked, sendPending, hasAutoScan,
                   cancelSent, terminated>>

\* startRemoteScanWithPath(path) up to the await of sendRemote
startRemoteScanWithPath(path) ==
    IF ~remoteSyncEnabled
    THEN /\ error' = SyncDisabledMsg
         /\ UNCHANGED <<summary, selectedPath, isScanning, scanStatus, scanHistory,
                        remoteRequestId, activeScanPath, activeScanMode, lastScanPath,
                        lastScanMode, unlisten, startPending, leaked,
                        scanCompleteTimeout, scanRootPath, sendPending, cancelSent,
                        terminated,                         diskUsage, diskUsageError, nextId>>
    ELSE /\ nextId <= MaxRequests
         /\ nextId' = nextId + 1
         /\ scanCompleteTimeout' = FALSE
         /\ activeScanPath' = path
         /\ activeScanMode' = "remote"
         /\ lastScanPath' = path
         /\ lastScanMode' = "remote"
         /\ clearListeners
         /\ resetScanState(path)
         /\ remoteRequestId' = nextId
         /\ sendPending' = TRUE
         /\ cancelSent' = FALSE
         /\ UNCHANGED <<scanHistory, startPending, leaked, terminated>>

\* handleRemoteScanConfirm()
HandleRemoteScanConfirm ==
    /\ isRemoteScanOpen
    /\ IF selectedRemotePath = NoPath
       THEN /\ remoteListError' = SelectFolderMsg
            /\ last' = NoObs
            /\ UNCHANGED <<isRemoteScanOpen, scanVars, diskVars, nextId>>
       ELSE /\ isRemoteScanOpen' = FALSE
            /\ last' = Obs(IF remoteSyncEnabled THEN "scan-request" ELSE "scan-refused",
                           IF remoteSyncEnabled THEN nextId ELSE NoId,
                           selectedRemotePath)
            /\ startRemoteScanWithPath(selectedRemotePath)
            /\ UNCHANGED <<remoteListError, hasAutoScan, remoteDiskRequestId,
                           diskEffectDeps, localDiskPending>>
    /\ UNCHANGED <<connVars, remoteListRequestId, remoteListRequestMap,
                   remoteListTimeouts, listSendPending, remoteTree, remoteTreeRoots,
                   remoteFocusPath, remoteListLoading, remoteOs, selectedRemotePath>>

\* handleScan(): the Scan Folder button (disabled while scanning) and the
\* Start Scanning button of the empty view (shown while there is no summary)
HandleScan(folder, hasFilterError) ==
    /\ ~isScanning \/ summary = NoSummary
    /\ IF hasFilterError
       THEN /\ error' = "Fix filter errors before starting a scan."
            /\ last' = NoObs
            /\ UNCHANGED <<listVars, diskVars, nextId, summary, selectedPath, isScanning,
                           scanStatus, scanHistory, remoteRequestId, activeScanPath,
                           activeScanMode, lastScanPath, lastScanMode, unlisten,
                           startPending, leaked, scanCompleteTimeout, scanRootPath,
                           sendPending, cancelSent, terminated>>
       ELSE IF isRemoteConnected /\ remoteSyncEnabled
       THEN \* openRemoteScanModal()
            /\ error' = NoMsg
            /\ isRemoteScanOpen' = TRUE
            /\ selectedRemotePath' = NoPath
            /\ last' = Obs("list-request", nextId, NoPath)
            /\ requestRemoteListing(NoPath)
            /\ UNCHANGED <<diskVars, summary, selectedPath, isScanning, scanStatus,
                           scanHistory, remoteRequestId, activeScanPath, activeScanMode,
                           lastScanPath, lastScanMode, unlisten, startPending, leaked,
                           scanCompleteTimeout, scanRootPath, sendPending, cancelSent, terminated>>
       ELSE IF folder = NoPath
       THEN /\ error' = NoMsg
            /\ last' = NoObs
            /\ UNCHANGED <<listVars, diskVars, nextId, summary, selectedPath, isScanning,
                           scanStatus, scanHistory, remoteRequestId, activeScanPath,
                           activeScanMode, lastScanPath, lastScanMode, unlisten,
                           startPending, leaked, scanCompleteTimeout, scanRootPath,
                           sendPending, cancelSent, terminated>>
       ELSE /\ last' = Obs("scan-request", NoId, folder)
            /\ startScanWithFolder(folder)
            /\ UNCHANGED <<listVars, nextId, remoteDiskRequestId, diskEffectDeps,
                           localDiskPending>>
    /\ UNCHANGED <<connVars, hasAutoScan>>

\* a button of the scan history bar: startScanWithFolder(path)
HistoryShortcut(i) ==
    /\ i \in 1..Len(scanHistory)
    /\ last' = Obs("scan-request", NoId, scanHistory[i])
    /\ startScanWithFolder(scanHistory[i])
    /\ UNCHANGED <<connVars, listVars, nextId, remoteDiskRequestId, diskEffectDeps,
                   localDiskPending, hasAutoScan>>

\* the mount effect that scans the scanPath query parameter or the startup path
StartupScan(path) ==
    /\ ~hasAutoScan
    /\ hasAutoScan' = TRUE
    /\ last' = Obs("scan-request", NoId, path)
    /\ startScanWithFolder(path)
    /\ UNCHANGED <<connVars, listVars, nextId, remoteDiskRequestId, diskEffectDeps,
                   localDiskPending>>

\* handleCancelScan(): cancelRemoteScan() or cancelScan(), up to the await; the
\* Cancel button is rendered while isScanning. The observation notes whether a
\* cancel was already issued for this scan.
HandleCancelScan ==
    /\ isScanning
    /\ sendPending' = TRUE
    /\ cancelSent' = TRUE
    /\ UNCHANGED terminated
    /\ last' = Obs(IF remoteSyncEnabled /\ isRemoteConnected /\ remoteRequestId # NoId
                   THEN "cancel-remote" ELSE "cancel-local", remoteRequestId,
                   IF cancelSent THEN "again" ELSE NoPath)
    /\ UNCHANGED <<connVars, listVars, diskVars, nextId, summary, selectedPath,
                   isScanning, scanStatus, error, scanHistory, remoteRequestId,
                   activeScanPath, activeScanMode, lastScanPath, lastScanMode, unlisten,
                   startPending, leaked, scanCompleteTimeout, scanRootPath, hasAutoScan>>

\* sendRemote / cancelScan settled; a rejection calls failScan
CommandSettled(ok) ==
    /\ sendPending
    /\ sendPending' = FALSE
    /\ last' = Obs(IF ok THEN "command-accepted" ELSE "command-rejected", NoId, NoPath)
    /\ IF ok THEN ScanStateUnchanged ELSE failScan(ConnectFailedMsg)
    /\ UNCHANGED <<connVars, listVars, diskVars, nextId, remoteRequestId, lastScanPath,
                   lastScanMode, startPending, leaked, hasAutoScan, cancelSent, terminated>>

\* the timer finishScan arms: setScanStatus("idle") after 1500 ms
ScanCompleteTimeoutFires ==
    /\ scanCompleteTimeout
    /\ scanCompleteTimeout' = FALSE
    /\ scanStatus' = "idle"
    /\ last' = Obs("scan-complete-timeout", NoId, NoPath)
    /\ UNCHANGED <<connVars, listVars, diskVars, nextId, summary, selectedPath,
                   isScanning, error, scanHistory, remoteRequestId, activeScanPath,
                   activeScanMode, lastScanPath, lastScanMode, unlisten, startPending,
                   leaked, scanRootPath, sendPending, hasAutoScan, cancelSent, terminated>>

----------------------------------------------------------------------------
(* Disk usage *)

DiskDatas == {"usage", NoUsage}

\* the dependency list of the disk-usage effect
DiskDeps == <<isRemoteConnected, remoteSyncEnabled, scanRootPath>>

\* the disk-usage effect, run after a render in which its dependencies changed;
\* the cleanup of the previous run deactivates a pending local getDiskUsage
DiskUsageEffect ==
    /\ DiskDeps # diskEffectDeps
    /\ diskEffectDeps' = DiskDeps
    /\ IF scanRootPath = NoPath
       THEN /\ last' = NoObs
            /\ localDiskPending' = FALSE
            /\ UNCHANGED <<diskUsage, diskUsageError, remoteDiskRequestId, nextId>>
       ELSE IF activeScanMode = "remote"
       THEN /\ localDiskPending' = FALSE
            /\ IF ~remoteSyncEnabled \/ ~isRemoteConnected
               THEN /\ last' = NoObs
                    /\ UNCHANGED <<diskUsage, diskUsageError, remoteDiskRequestId, nextId>>
               ELSE /\ nextId <= MaxRequests
                    /\ nextId' = nextId + 1
                    /\ remoteDiskRequestId' = nextId
                    /\ diskUsageError' = NoMsg
                    /\ last' = Obs("disk-request", nextId, scanRootPath)
                    /\ UNCHANGED diskUsage
       ELSE /\ diskUsageError' = NoMsg
            /\ localDiskPending' = TRUE
            /\ last' = NoObs
            /\ UNCHANGED <<diskUsage, remoteDiskRequestId, nextId>>
    /\ UNCHANGED <<connVars, listVars, scanVars>>

\* getDiskUsage(scanRootPath) settled while its effect is still active
LocalDiskSettled(ok) ==
    /\ localDiskPending
    /\ localDiskPending' = FALSE
    /\ last' = NoObs
    /\ IF ok
       THEN diskUsage' = "usage" /\ UNCHANGED diskUsageError
       ELSE diskUsageError' = DiskErrorMsg /\ UNCHANGED diskUsage
    /\ UNCHANGED <<connVars, listVars, scanVars, remoteDiskRequestId, diskEffectDeps,
                   nextId>>

\* the id check of the disk events against remoteDiskRequestIdRef.current
DiskIdMismatch(id) ==
    id # NoId /\ remoteDiskRequestId # NoId /\ id # remoteDiskRequestId

\* handleRemoteEvent, event disk-info
OnDiskInfo(id, data) ==
    /\ last' = Obs("disk-info", id, NoPath)
    /\ IF ~remoteSyncEnabled \/ DiskIdMismatch(id)
       THEN UNCHANGED <<diskUsage, diskUsageError, remoteDiskRequestId>>
       ELSE /\ IF data # NoUsage
               THEN diskUsage' = data /\ diskUsageError' = NoMsg
               ELSE UNCHANGED <<diskUsage, diskUsageError>>
            /\ remoteDiskRequestId' = NoId
    /\ UNCHANGED <<connVars, listVars, scanVars, diskEffectDeps, localDiskPending, nextId>>

\* handleRemoteEvent, event disk-error
OnDiskError(id) ==
    /\ last' = Obs("disk-error", id, NoPath)
    /\ IF ~remoteSyncEnabled \/ DiskIdMismatch(id)
       THEN UNCHANGED <<diskUsage, diskUsageError, remoteDiskRequestId>>
       ELSE /\ diskUsageError' = DiskErrorMsg
            /\ remoteDiskRequestId' = NoId
            /\ UNCHANGED diskUsage
    /\ UNCHANGED <<connVars, listVars, scanVars, diskEffectDeps, localDiskPending, nextId>>

----------------------------------------------------------------------------
(* Initial state: two saved servers, nothing connected, nothing scanned *)

InitApp ==
    /\ remoteServers = [s \in Servers |->
                          [status |-> "disconnected", token |-> "tok", lastMessage |-> NoMsg]]
    /\ activeRemoteServerId = NoServer
    /\ remoteSyncEnabled = TRUE
    /\ panelError = NoMsg
    /\ connectPending = {}
    /\ disconnectPending = {}
    /\ remoteListRequestId = NoId
    /\ remoteListRequestMap = <<>>
    /\ remoteListTimeouts = {}
    /\ listSendPending = {}
    /\ remoteTree = <<>>
    /\ remoteTreeRoots = <<>>
    /\ remoteFocusPath = NoPath
    /\ remoteListLoading = FALSE
    /\ remoteListError = NoMsg
    /\ remoteOs = NoOs
    /\ isRemoteScanOpen = FALSE
    /\ selectedRemotePath = NoPath
    /\ summary = NoSummary
    /\ selectedPath = NoPath
    /\ isScanning = FALSE
    /\ scanStatus = "idle"
    /\ error = NoMsg
    /\ scanHistory = <<>>
    /\ remoteRequestId = NoId
    /\ activeScanPath = NoPath
    /\ activeScanMode = NoMode
    /\ lastScanPath = NoPath
    /\ lastScanMode = NoMode
    /\ unlisten = FALSE
    /\ startPending = 0
    /\ leaked = 0
    /\ scanCompleteTimeout = FALSE
    /\ scanRootPath = NoPath
    /\ sendPending = FALSE
    /\ hasAutoScan = FALSE
    /\ cancelSent = FALSE
    /\ terminated = {}
    /\ diskUsage = NoUsage
    /\ diskUsageError = NoMsg
    /\ remoteDiskRequestId = NoId
    /\ diskEffectDeps = <<FALSE, TRUE, NoPath>>
    /\ localDiskPending = FALSE
    /\ nextId = 1
    /\ last = NoObs

\* ids already handed out, and the absent id
EventIds == (1..(nextId - 1)) \cup {NoId}

----------------------------------------------------------------------------
(* Local scans as the scan engine runs them, and the scan restart timer *)

\* no event of a run has been delivered by the last step
NoApplied == [run |-> 0, kind |-> "none"]

\* the runs the engine has been asked for
Runs == 1..MaxRuns

\* nothing has been scanned and no timer is armed
RunsIdle ==
    /\ scanRestartTimeout = FALSE
    /\ restartPending = FALSE
    /\ restartPath = NoPath
    /\ engineRuns = [r \in Runs |-> "none"]
    /\ currentRun = 0
    /\ applied = NoApplied

\* the scan_path command: the engine runs one scan at a time, a scan requested
\* while the cancellation of another is not complete waits for it
RunRequested ==
    /\ currentRun < MaxRuns
    /\ \A r \in Runs : engineRuns[r] # "running"
    /\ currentRun' = currentRun + 1
    /\ engineRuns' = [engineRuns EXCEPT ![currentRun + 1] =
                         IF \E r \in Runs : engineRuns[r] = "cancelling"
                         THEN "queued" ELSE "running"]

\* the cancel_scan command: it returns at once, the scan ends later with its
\* scan-cancelled event
RunsCancelled ==
    [r \in Runs |-> IF engineRuns[r] = "running" THEN "cancelling" ELSE engineRuns[r]]

\* the engine after run r has emitted its terminal event
RunEnded(r) ==
    [x \in Runs |-> IF x = r THEN "ended"
                    ELSE IF engineRuns[x] = "queued" THEN "running"
                    ELSE engineRuns[x]]

\* resetScanState() changes some state, so that ScanView renders again
ResetRenders ==
    \/ ~isScanning
    \/ summary # NoSummary
    \/ selectedPath # NoPath
    \/ error # NoMsg
    \/ scanStatus # "scanning"

\* the restart effect after a render: the timer is armed while isScanning and
\* activeScanPathRef.current are set, and cleared otherwise
RestartEffect == scanRestartTimeout' = (isScanning' /\ activeScanPath' # NoPath)

\* the user starts a local scan of a folder
RunHandleScan(folder) ==
    /\ folder # NoPath
    /\ ~(isRemoteConnected /\ remoteSyncEnabled)
    /\ HandleScan(folder, FALSE)
    /\ RunRequested
    /\ scanRestartTimeout' = (ResetRenders \/ scanRestartTimeout)
    /\ applied' = NoApplied
    /\ UNCHANGED <<restartPending, restartPath>>

\* startScan resolves
RunStartReturned ==
    /\ StartScanReturned
    /\ applied' = NoApplied
    /\ UNCHANGED <<scanRestartTimeout, restartPending, restartPath, engineRuns, currentRun>>

\* run r emits an event: the handlers of every subscribed listener set get it
RunEvent(r, kind, data) ==
    /\ \/ engineRuns[r] = "running" /\ kind \in {"scan-progress", "scan-complete", "scan-error"}
       \/ engineRuns[r] = "cancelling" /\ kind = "scan-cancelled"
    /\ engineRuns' = IF kind = "scan-progress" THEN engineRuns ELSE RunEnded(r)
    /\ IF Listening > 0
       THEN /\ LocalScanEvent(kind, data)
            /\ applied' = [run |-> r, kind |-> kind]
            /\ RestartEffect
       ELSE /\ UNCHANGED appVars
            /\ applied' = NoApplied
            /\ UNCHANGED scanRestartTimeout
    /\ UNCHANGED <<restartPending, restartPath, currentRun>>

\* the Cancel button while a local scan is shown as running
RunHandleCancelScan ==
    /\ ~(remoteSyncEnabled /\ isRemoteConnected /\ remoteRequestId # NoId)
    /\ ~sendPending
    /\ HandleCancelScan
    /\ applied' = NoApplied
    /\ UNCHANGED <<scanRestartTimeout, restartPending, restartPath, engineRuns, currentRun>>

\* cancelScan() of the Cancel button settles
RunCancelSettled(ok) ==
    /\ CommandSettled(ok)
    /\ engineRuns' = IF ok THEN RunsCancelled ELSE engineRuns
    /\ IF ok THEN UNCHANGED scanRestartTimeout ELSE RestartEffect
    /\ applied' = NoApplied
    /\ UNCHANGED <<restartPending, restartPath, currentRun>>

\* the timer of the restart effect fires, 300 ms after it was armed: for a local
\* scan the callback calls cancelScan() and awaits it
RestartTimerFires ==
    /\ scanRestartTimeout
    /\ ~restartPending
    /\ scanRestartTimeout' = FALSE
    /\ IF activeScanPath = NoPath \/ activeScanMode # "local"
       THEN UNCHANGED <<restartPending, restartPath>>
       ELSE restartPending' = TRUE /\ restartPath' = activeScanPath
    /\ last' = Obs("restart-timer", NoId, activeScanPath)
    /\ applied' = NoApplied
    /\ UNCHANGED <<connVars, listVars, scanVars, diskVars, nextId, engineRuns, currentRun>>

\* cancelScan() of the timer callback settles: startScanWithFolder(path) follows,
\* a rejection ends the callback
RestartCancelSettled(ok) ==
    /\ restartPending
    /\ restartPending' = FALSE
    /\ restartPath' = NoPath
    /\ applied' = NoApplied
    /\ IF ok
       THEN /\ currentRun < MaxRuns
            /\ currentRun' = currentRun + 1
            /\ engineRuns' = [RunsCancelled EXCEPT ![currentRun + 1] =
                                 IF \E r \in Runs : RunsCancelled[r] = "cancelling"
                                 THEN "queued" ELSE "running"]
            /\ last' = Obs("scan-restart", NoId, restartPath)
            /\ startScanWithFolder(restartPath)
            /\ scanRestartTimeout' = (ResetRenders \/ scanRestartTimeout)
            /\ UNCHANGED <<connVars, listVars, nextId, remoteDiskRequestId,
                           diskEffectDeps, localDiskPending, hasAutoScan>>
       ELSE /\ last' = Obs("restart-rejected", NoId, restartPath)
            /\ UNCHANGED <<connVars, listVars, scanVars, diskVars, nextId, engineRuns,
                           currentRun, scanRestartTimeout>>

----------------------------------------------------------------------------
(* Strings: a string is the sequence of its characters *)

UpperCase == <<"A", "B", "C", "D", "E", "F", "G", "H", "I", "J", "K", "L", "M",
               "N", "O", "P", "Q", "R", "S", "T", "U", "V", "W", "X", "Y", "Z">>

LowerCase == <<"a", "b", "c", "d", "e", "f", "g", "h", "i", "j", "k", "l", "m",
               "n", "o", "p", "q", "r", "s", "t", "u", "v", "w", "x", "y", "z">>

Digits == <<"0", "1", "2", "3", "4", "5", "6", "7", "8", "9">>

\* the first index i of sequence s with s[i] = c, 0 when there is none
Position(s, c) ==
    IF \E i \in 1..Len(s) : s[i] = c
    THEN CHOOSE i \in 1..Len(s) : s[i] = c /\ \A j \in 1..(i - 1) : s[j] # c
    ELSE 0

\* String.prototype.toLowerCase
toLowerCase(s) ==
    [i \in 1..Len(s) |->
        IF Position(UpperCase, s[i]) > 0 THEN LowerCase[Position(UpperCase, s[i])] ELSE s[i]]

\* String.prototype.slice(from, to) and slice(from), zero-based
slice(s, from, to) == SubSeq(s, from + 1, to)

sliceFrom(s, from) == SubSeq(s, from + 1, Len(s))

\* String.prototype.indexOf(c) and lastIndexOf(c) for a character c, zero-based
indexOf(s, c) == Position(s, c) - 1

lastIndexOf(s, c) ==
    IF \E i \in 1..Len(s) : s[i] = c
    THEN (CHOOSE i \in 1..Len(s) : s[i] = c /\ \A j \in (i + 1)..Len(s) : s[j] # c) - 1
    ELSE -1

\* String.prototype.includes
includes(s, t) == \E i \in 0..(Len(s) - Len(t)) : SubSeq(s, i + 1, i + Len(t)) = t

startsWith(s, t) == Len(t) <= Len(s) /\ SubSeq(s, 1, Len(t)) = t

endsWith(s, t) == Len(t) <= Len(s) /\ SubSeq(s, Len(s) - Len(t) + 1, Len(s)) = t

\* the characters \s matches
WhiteSpace == {" ", "\t", "\n"}

\* String.prototype.trim
RECURSIVE trimStart(_)
trimStart(s) == IF s # <<>> /\ s[1] \in WhiteSpace THEN trimStart(Tail(s)) ELSE s

RECURSIVE trimEnd(_)
trimEnd(s) ==
    IF s # <<>> /\ s[Len(s)] \in WhiteSpace THEN trimEnd(SubSeq(s, 1, Len(s) - 1)) ELSE s

trim(s) == trimEnd(trimStart(s))

\* String.prototype.split on a class of single characters
RECURSIVE split(_, _)
split(s, separators) ==
    IF \E i \in 1..Len(s) : s[i] \in separators
    THEN LET i == CHOOSE k \in 1..Len(s) :
                     s[k] \in separators /\ \A j \in 1..(k - 1) : s[j] \notin separators
         IN <<SubSeq(s, 1, i - 1)>> \o split(SubSeq(s, i + 1, Len(s)), separators)
    ELSE <<s>>

\* Array.prototype.filter(Boolean) on strings: the empty strings are dropped
RECURSIVE filterBoolean(_)
filterBoolean(parts) ==
    IF parts = <<>> THEN <<>>
    ELSE IF parts[1] = <<>> THEN filterBoolean(Tail(parts))
    ELSE <<parts[1]>> \o filterBoolean(Tail(parts))

\* the elements of a sequence
Range(s) == {s[i] : i \in 1..Len(s)}

\* parseListInput(value): the parts between commas and newlines, trimmed, without
\* a leading dot, in lower case, without empty parts and repetitions
RECURSIVE cleanParts(_, _)
cleanParts(parts, result) ==
    IF parts = <<>> THEN result
    ELSE LET trimmed == trim(parts[1])
             undotted == IF startsWith(trimmed, <<".">>) THEN Tail(trimmed) ELSE trimmed
             cleaned == toLowerCase(undotted)
         IN IF cleaned = <<>> \/ cleaned \in Range(result)
            THEN cleanParts(Tail(parts), result)
            ELSE cleanParts(Tail(parts), Append(result, cleaned))

parseListInput(value) == cleanParts(split(value, {",", "\n"}), <<>>)

\* SIZE_UNITS
UnitNames == <<<<"t", "b">>, <<"g", "b">>, <<"m", "b">>, <<"k", "b">>, <<"b">>>>

SIZE_UNITS(unit) ==
    CASE unit = <<"b">> -> 1
      [] unit = <<"k", "b">> -> 1024
      [] unit = <<"m", "b">> -> 1024 * 1024
      [] unit = <<"g", "b">> -> 1024 * 1024 * 1024
      [] unit = <<"t", "b">> -> 1024 * 1024 * 1024 * 1024

\* the absent size (null)
NoSize == -1

IsDigits(s) == s # <<>> /\ \A i \in 1..Len(s) : Position(Digits, s[i]) > 0

RECURSIVE DigitsValue(_)
DigitsValue(s) ==
    IF s = <<>> THEN 0
    ELSE 10 * DigitsValue(SubSeq(s, 1, Len(s) - 1)) + (Position(Digits, s[Len(s)]) - 1)

RECURSIVE PowerOfTen(_)
PowerOfTen(k) == IF k = 0 THEN 1 ELSE 10 * PowerOfTen(k - 1)

\* \d+(?:\.\d+)?
IsNumber(s) ==
    \/ IsDigits(s)
    \/ /\ Position(s, ".") > 0
       /\ IsDigits(SubSeq(s, 1, Position(s, ".") - 1))
       /\ IsDigits(SubSeq(s, Position(s, ".") + 1, Len(s)))

\* Math.round(Number(number) * multiplier)
RoundedProduct(number, multiplier) ==
    IF IsDigits(number) THEN DigitsValue(number) * multiplier
    ELSE LET dot == Position(number, ".")
             whole == SubSeq(number, 1, dot - 1)
             fraction == SubSeq(number, dot + 1, Len(number))
             scale == PowerOfTen(Len(fraction))
             mantissa == DigitsValue(whole) * scale + DigitsValue(fraction)
         IN (2 * mantissa * multiplier + scale) \div (2 * scale)

\* parseSizeValue(raw): /^(\d+(?:\.\d+)?)(b|kb|mb|gb|tb)?$/ on the trimmed lower
\* case text, NoSize when it does not match
parseSizeValue(raw) ==
    LET text == toLowerCase(trim(raw))
        units == {u \in Range(UnitNames) :
                     endsWith(text, u) /\ IsNumber(SubSeq(text, 1, Len(text) - Len(u)))}
    IN IF IsNumber(text) THEN RoundedProduct(text, 1)
       ELSE IF units = {} THEN NoSize
       ELSE LET unit == CHOOSE u \in units : TRUE
            IN RoundedProduct(SubSeq(text, 1, Len(text) - Len(unit)), SIZE_UNITS(unit))

\* getPathExtension(path), <<>> for null
getPathExtension(path) ==
    LET lastDot == lastIndexOf(path, ".")
    IN IF lastDot <= 0 \/ lastDot = Len(path) - 1 THEN <<>>
       ELSE toLowerCase(sliceFrom(path, lastDot + 1))

----------------------------------------------------------------------------
(* Regular expressions: literal characters, the wildcard "." and groups *)

\* null in place of a RegExp
NoRegex == [source |-> <<>>, flags |-> <<>>, lastIndex |-> -1]

RegExpFlags == {"d", "g", "i", "m", "s", "u", "v", "y"}

ValidFlags(flags) ==
    /\ Range(flags) \subseteq RegExpFlags
    /\ Cardinality(Range(flags)) = Len(flags)
    /\ ~({"u", "v"} \subseteq Range(flags))

\* the parentheses of the pattern are balanced
RECURSIVE Balanced(_, _)
Balanced(pattern, depth) ==
    IF pattern = <<>> THEN depth = 0
    ELSE IF pattern[1] = "(" THEN Balanced(Tail(pattern), depth + 1)
    ELSE IF pattern[1] = ")" THEN depth > 0 /\ Balanced(Tail(pattern), depth - 1)
    ELSE Balanced(Tail(pattern), depth)

\* new RegExp(pattern, flags), NoRegex where the constructor throws
RegExp(pattern, flags) ==
    IF ValidFlags(flags) /\ Balanced(pattern, 0)
    THEN [source |-> pattern, flags |-> flags, lastIndex |-> 0]
    ELSE NoRegex

\* parseRegexToken(value)
parseRegexToken(value) ==
    LET trimmed == trim(value)
        lastSlash == lastIndexOf(trimmed, "/")
        given == sliceFrom(trimmed, lastSlash + 1)
    IN IF trimmed = <<>> THEN NoRegex
       ELSE IF startsWith(trimmed, <<"/">>) /\ lastSlash > 0
       THEN RegExp(slice(trimmed, 1, lastSlash), IF given = <<>> THEN <<"i">> ELSE given)
       ELSE RegExp(trimmed, <<"i">>)

\* the characters of the pattern that consume a character of the subject
RECURSIVE Atoms(_)
Atoms(pattern) ==
    IF pattern = <<>> THEN <<>>
    ELSE IF pattern[1] \in {"(", ")"} THEN Atoms(Tail(pattern))
    ELSE <<pattern[1]>> \o Atoms(Tail(pattern))

\* the pattern matches the subject at the zero-based index
MatchesAt(regex, subject, index) ==
    LET atoms == Atoms(regex.source)
        fold(s) == IF "i" \in Range(regex.flags) THEN toLowerCase(s) ELSE s
    IN /\ index + Len(atoms) <= Len(subject)
       /\ \A k \in 1..Len(atoms) :
             \/ atoms[k] = "." /\ subject[index + k] # "\n"
             \/ fold(<<atoms[k]>>) = fold(<<subject[index + k]>>)

\* the search of a global or sticky RegExp starts at lastIndex and moves it
Stateful(regex) == Range(regex.flags) \cap {"g", "y"} # {}

\* RegExp.prototype.test(subject): the result and the new lastIndex
test(regex, subject) ==
    LET start == IF Stateful(regex) THEN regex.lastIndex ELSE 0
        tried == IF "y" \in Range(regex.flags) THEN {start} ELSE start..Len(subject)
        hits == {i \in tried : MatchesAt(regex, subject, i)}
    IN IF start > Len(subject) \/ hits = {}
       THEN [found |-> FALSE, lastIndex |-> IF Stateful(regex) THEN 0 ELSE regex.lastIndex]
       ELSE LET first == CHOOSE i \in hits : \A j \in hits : i <= j
            IN [found |-> TRUE,
                lastIndex |-> IF Stateful(regex) THEN first + Len(Atoms(regex.source))
                              ELSE regex.lastIndex]

\* regex.test(first) || regex.test(second): the result and the RegExp afterwards
testEither(regex, first, second) ==
    LET one == test(regex, first)
        two == test([regex EXCEPT !.lastIndex = one.lastIndex], second)
    IN IF one.found THEN [found |-> TRUE, regex |-> [regex EXCEPT !.lastIndex = one.lastIndex]]
       ELSE [found |-> two.found, regex |-> [regex EXCEPT !.lastIndex = two.lastIndex]]

----------------------------------------------------------------------------
(* Search queries (parseSearchQuery, matchesSearchEntry) *)

\* the SearchParams of the empty query
EmptyParams ==
    [terms |-> <<>>, nameTerms |-> <<>>, pathTerms |-> <<>>, exts |-> {},
     regex |-> NoRegex, minSize |-> NoSize, maxSize |-> NoSize]

\* the alternatives of /^size(<=|>=|=|<|>)(.+)$/ in the order they are tried
SizeOperators == <<<<"<", "=">>, <<">", "=">>, <<"=">>, <<"<">>, <<">">>>>

SizePrefix == <<"s", "i", "z", "e">>

\* token.match(/^size(<=|>=|=|<|>)(.+)$/): the index of the operator that
\* matches with a non-empty rest, 0 without a match
sizeMatch(token) ==
    LET rest == sliceFrom(token, Len(SizePrefix))
        fits == {k \in 1..Len(SizeOperators) :
                    /\ startsWith(token, SizePrefix)
                    /\ startsWith(rest, SizeOperators[k])
                    /\ Len(rest) > Len(SizeOperators[k])}
    IN IF fits = {} THEN 0 ELSE CHOOSE k \in fits : \A j \in fits : k <= j

\* every size token replaces both bounds
applySizeTokenAlone(params, token) ==
    LET k == sizeMatch(token)
        operator == SizeOperators[k]
        sizeValue == parseSizeValue(sliceFrom(token, Len(SizePrefix) + Len(operator)))
        setsMin == operator \in {<<">">>, <<">", "=">>, <<"=">>}
        setsMax == operator \in {<<"<">>, <<"<", "=">>, <<"=">>}
    IN IF k = 0 THEN [handled |-> FALSE, params |-> params]
       ELSE IF sizeValue = NoSize THEN [handled |-> TRUE, params |-> params]
       ELSE [handled |-> TRUE,
             params |-> [params EXCEPT
                            !.minSize = IF setsMin THEN sizeValue ELSE NoSize,
                            !.maxSize = IF setsMax THEN sizeValue ELSE NoSize]]

\* applySizeToken(params, token): whether the token was consumed, and the params
applySizeToken(params, token) ==
    LET k == sizeMatch(token)
        operator == SizeOperators[k]
        sizeValue == parseSizeValue(sliceFrom(token, Len(SizePrefix) + Len(operator)))
        setsMin == operator \in {<<">">>, <<">", "=">>, <<"=">>}
        setsMax == operator \in {<<"<">>, <<"<", "=">>, <<"=">>}
    IN IF k = 0 THEN [handled |-> FALSE, params |-> params]
       ELSE IF sizeValue = NoSize THEN [handled |-> TRUE, params |-> params]
       ELSE [handled |-> TRUE,
             params |-> [params EXCEPT
                            !.minSize = IF setsMin THEN sizeValue ELSE @,
                            !.maxSize = IF setsMax THEN sizeValue ELSE @]]

NameKey == <<"n", "a", "m", "e">>
PathKey == <<"p", "a", "t", "h">>
ExtKey == <<"e", "x", "t">>
RegexKey == <<"r", "e", "g", "e", "x">>

\* a regex: token without a valid pattern clears the regular expression
applyKeyTokenClearing(params, token) ==
    LET colonIndex == indexOf(token, ":")
        key == slice(token, 0, colonIndex)
        value == sliceFrom(token, colonIndex + 1)
    IN IF colonIndex <= 0 THEN [handled |-> FALSE, params |-> params]
       ELSE [handled |-> TRUE,
             params |->
                CASE key = NameKey -> [params EXCEPT !.nameTerms = Append(@, value)]
                  [] key = PathKey -> [params EXCEPT !.pathTerms = Append(@, value)]
                  [] key = ExtKey ->
                       [params EXCEPT !.exts = @ \cup Range(parseListInput(value))]
                  [] key = RegexKey -> [params EXCEPT !.regex = parseRegexToken(value)]
                  [] OTHER -> [params EXCEPT !.terms = Append(@, token)]]

\* applyKeyToken(params, token)
applyKeyToken(params, token) ==
    LET colonIndex == indexOf(token, ":")
        key == slice(token, 0, colonIndex)
        value == sliceFrom(token, colonIndex + 1)
        regex == parseRegexToken(value)
    IN IF colonIndex <= 0 THEN [handled |-> FALSE, params |-> params]
       ELSE [handled |-> TRUE,
             params |->
                CASE key = NameKey -> [params EXCEPT !.nameTerms = Append(@, value)]
                  [] key = PathKey -> [params EXCEPT !.pathTerms = Append(@, value)]
                  [] key = ExtKey ->
                       [params EXCEPT !.exts = @ \cup Range(parseListInput(value))]
                  [] key = RegexKey ->
                       IF regex # NoRegex THEN [params EXCEPT !.regex = regex] ELSE params
                  [] OTHER -> [params EXCEPT !.terms = Append(@, token)]]

\* the loop of parseSearchQuery over the tokens
RECURSIVE applyTokens(_, _)
applyTokens(tokens, params) ==
    IF tokens = <<>> THEN params
    ELSE LET token == toLowerCase(tokens[1])
             sized == applySizeToken(params, token)
             keyed == applyKeyToken(params, token)
         IN applyTokens(Tail(tokens),
                        IF sized.handled THEN sized.params
                        ELSE IF keyed.handled THEN keyed.params
                        ELSE [params EXCEPT !.terms = Append(@, token)])

\* query.trim().split(/\s+/).filter(Boolean)
queryTokens(query) == filterBoolean(split(trim(query), WhiteSpace))

\* parseSearchQuery(query)
parseSearchQuery(query) == applyTokens(queryTokens(query), EmptyParams)

\* one token found is enough
matchesSomeToken(value, tokens) ==
    Len(tokens) = 0 \/ \E i \in 1..Len(tokens) : includes(value, tokens[i])

\* matchesAllTokens(value, tokens)
matchesAllTokens(value, tokens) ==
    \A i \in 1..Len(tokens) : tokens[i] = <<>> \/ includes(value, tokens[i])

\* matchesSearchTerms(name, path, terms)
matchesSearchTerms(name, path, terms) ==
    \A i \in 1..Len(terms) :
        terms[i] = <<>> \/ includes(name, terms[i]) \/ includes(path, terms[i])

\* the bounds read as exclusive
matchesSizeStrictly(sizeBytes, minSize, maxSize) ==
    /\ ~(minSize # NoSize /\ sizeBytes <= minSize)
    /\ ~(maxSize # NoSize /\ sizeBytes >= maxSize)

\* matchesSizeConstraints(sizeBytes, minSize, maxSize)
matchesSizeConstraints(sizeBytes, minSize, maxSize) ==
    /\ ~(minSize # NoSize /\ sizeBytes < minSize)
    /\ ~(maxSize # NoSize /\ sizeBytes > maxSize)

\* matchesRegexConstraint(name, path, regex): the result and the RegExp afterwards
matchesRegexConstraint(name, path, regex) ==
    IF regex = NoRegex THEN [found |-> TRUE, regex |-> regex]
    ELSE testEither(regex, path, name)

\* matchesSearchEntry(entry, params): the result and the RegExp afterwards
matchesSearchEntry(entry, params) ==
    LET name == toLowerCase(entry.name)
        path == toLowerCase(entry.path)
        ext == getPathExtension(path)
    IN IF \/ ~matchesAllTokens(name, params.nameTerms)
          \/ ~matchesAllTokens(path, params.pathTerms)
          \/ ~matchesSearchTerms(name, path, params.terms)
          \/ (params.exts # {} /\ (ext = <<>> \/ ext \notin params.exts))
          \/ ~matchesSizeConstraints(entry.sizeBytes, params.minSize, params.maxSize)
       THEN [found |-> FALSE, regex |-> params.regex]
       ELSE matchesRegexConstraint(name, path, params.regex)

----------------------------------------------------------------------------
(* Scan filters (buildFilterMatchers, matchesFilterFile) *)

\* parseSizeInput(value).value
parseSizeInput(value) == IF trim(value) = <<>> THEN NoSize ELSE parseSizeValue(trim(value))

\* the scanFilters memo in advanced filter mode; <<>> stands for a null regex text
advancedFilters(inputs) ==
    [includeExtensions |-> parseListInput(inputs.includeExtensionsInput),
     excludeExtensions |-> parseListInput(inputs.excludeExtensionsInput),
     includeNames |-> parseListInput(inputs.includeNamesInput),
     excludeNames |-> parseListInput(inputs.excludeNamesInput),
     minSizeBytes |-> parseSizeInput(inputs.minSizeInput),
     maxSizeBytes |-> parseSizeInput(inputs.maxSizeInput),
     includeRegex |-> trim(inputs.includeRegexInput),
     excludeRegex |-> trim(inputs.excludeRegexInput),
     includePaths |-> parseListInput(inputs.includePathsInput),
     excludePaths |-> parseListInput(inputs.excludePathsInput)]

\* buildFilterMatchers(filters)
buildFilterMatchers(filters) ==
    [includeExts |-> Range(filters.includeExtensions),
     excludeExts |-> Range(filters.excludeExtensions),
     includeRegex |-> parseRegexToken(filters.includeRegex),
     excludeRegex |-> parseRegexToken(filters.excludeRegex),
     includePaths |-> filters.includePaths,
     excludePaths |-> filters.excludePaths]

\* pathContainsAny(path, values)
pathContainsAny(path, values) ==
    \E i \in 1..Len(values) : values[i] # <<>> /\ includes(path, values[i])

\* matchesPathFilters(path, includePaths, excludePaths)
matchesPathFilters(path, includePaths, excludePaths) ==
    LET normalized == toLowerCase(path)
    IN /\ ~(Len(includePaths) > 0 /\ ~pathContainsAny(normalized, includePaths))
       /\ ~(Len(excludePaths) > 0 /\ pathContainsAny(normalized, excludePaths))

\* matchesExtensionFilters(path, includeExts, excludeExts)
matchesExtensionFilters(path, includeExts, excludeExts) ==
    LET ext == getPathExtension(path)
    IN /\ ~(includeExts # {} /\ (ext = <<>> \/ ext \notin includeExts))
       /\ ~(excludeExts # {} /\ ext # <<>> /\ ext \in excludeExts)

\* matchesRegexFilters(path, name, includeRegex, excludeRegex): the result and
\* both RegExps afterwards
matchesRegexFilters(path, name, includeRegex, excludeRegex) ==
    LET included == IF includeRegex = NoRegex
                    THEN [found |-> TRUE, regex |-> includeRegex]
                    ELSE testEither(includeRegex, path, name)
        excluded == IF excludeRegex = NoRegex \/ ~included.found
                    THEN [found |-> FALSE, regex |-> excludeRegex]
                    ELSE testEither(excludeRegex, path, name)
    IN [accepted |-> included.found /\ ~excluded.found,
        includeRegex |-> included.regex,
        excludeRegex |-> excluded.regex]

\* matchesFilterFile(file, matchers): the result and the matchers afterwards
matchesFilterFile(file, matchers) ==
    LET path == toLowerCase(file.path)
        name == toLowerCase(file.name)
        regexes == matchesRegexFilters(path, name, matchers.includeRegex,
                                       matchers.excludeRegex)
    IN IF \/ ~matchesExtensionFilters(path, matchers.includeExts, matchers.excludeExts)
          \/ ~matchesPathFilters(path, matchers.includePaths, matchers.excludePaths)
       THEN [accepted |-> FALSE, matchers |-> matchers]
       ELSE [accepted |-> regexes.accepted,
             matchers |-> [matchers EXCEPT !.includeRegex = regexes.includeRegex,
                                           !.excludeRegex = regexes.excludeRegex]]

----------------------------------------------------------------------------
(* The search box and the filter form: inputs, memos and the entries tested *)

\* entries of a scan result
VacationPhoto ==
    [name |-> <<"v", "a", "c", "a", "t", "i", "o", "n", "_", "p", "h", "o", "t", "o",
                ".", "p", "n", "g">>,
     path |-> <<"/", "p", "i", "c", "s", "/", "v", "a", "c", "a", "t", "i", "o", "n",
                "_", "p", "h", "o", "t", "o", ".", "p", "n", "g">>,
     sizeBytes |-> 15 * 1024 * 1024]

ReportPdf ==
    [name |-> <<"r", "e", "p", "o", "r", "t", ".", "p", "d", "f">>,
     path |-> <<"/", "d", "o", "c", "s", "/", "r", "e", "p", "o", "r", "t", ".", "p",
                "d", "f">>,
     sizeBytes |-> 15 * 1024 * 1024]

PhotoJpg ==
    [name |-> <<"P", "h", "o", "t", "o", ".", "J", "P", "G">>,
     path |-> <<"/", "p", "i", "c", "s", "/", "P", "h", "o", "t", "o", ".", "J", "P",
                "G">>,
     sizeBytes |-> 10 * 1024 * 1024]

Readme ==
    [name |-> <<"R", "E", "A", "D", "M", "E">>,
     path |-> <<"/", "R", "E", "A", "D", "M", "E">>,
     sizeBytes |-> 512]

SearchEntries == {VacationPhoto, ReportPdf, PhotoJpg, Readme}

\* no entry has been tested yet
NoEntry == [name |-> <<>>, path |-> <<>>, sizeBytes |-> -1]

\* tokens a query is written with
QueryTokenPool ==
    <<<<"s", "i", "z", "e", ">", "1", "0", "m", "b">>,
      <<"e", "x", "t", ":", "p", "n", "g", ",", "j", "p", "g">>,
      <<"n", "a", "m", "e", ":", "v", "a", "c", "a", "t", "i", "o", "n">>,
      <<"s", "i", "z", "e", ">", "2", "0", "m", "b">>,
      <<"e", "x", "t", ":", "p", "d", "f">>,
      <<"r", "e", "g", "e", "x", ":", "/", "p", "h", "o", "t", "o", "/", "g">>,
      <<"r", "e", "g", "e", "x", ":", "r", "e", "p", "o", "r", "t">>,
      <<"P", "i", "c", "s">>>>

\* the queries: up to MaxTokens tokens of the pool, separated by a blank
TokenLists == UNION {[1..n -> 1..Len(QueryTokenPool)] : n \in 1..MaxTokens}

RECURSIVE JoinTokens(_)
JoinTokens(list) ==
    IF Len(list) = 1 THEN QueryTokenPool[list[1]]
    ELSE QueryTokenPool[list[1]] \o <<" ">> \o JoinTokens(Tail(list))

Queries == {JoinTokens(list) : list \in TokenLists}

\* the search box is empty
SearchIdle ==
    /\ searchQuery = <<>>
    /\ searchParams = EmptyParams
    /\ searchParsed = FALSE
    /\ searchedEntry = NoEntry
    /\ isMatch = FALSE

\* the search box holds a query; the searchParams memo has not been computed
SearchTyped ==
    /\ searchQuery \in Queries
    /\ searchParams = EmptyParams
    /\ searchParsed = FALSE
    /\ searchedEntry = NoEntry
    /\ isMatch = FALSE

\* the searchParams memo: parseSearchQuery(searchQuery.trim()) for a non-blank query
ParseSearchQuery ==
    /\ ~searchParsed
    /\ trim(searchQuery) # <<>>
    /\ searchParams' = parseSearchQuery(trim(searchQuery))
    /\ searchParsed' = TRUE
    /\ UNCHANGED <<searchQuery, searchedEntry, isMatch>>
    /\ UNCHANGED <<appVars, treemapVars, filterVars, engineVars, runVars, viewVars>>

\* one call matchesSearchEntry(e, searchParams) of the search loops
SearchEntry(e) ==
    /\ searchParsed
    /\ searchedEntry' = e
    /\ isMatch' = matchesSearchEntry(e, searchParams).found
    /\ searchParams' = [searchParams EXCEPT !.regex = matchesSearchEntry(e, searchParams).regex]
    /\ UNCHANGED <<searchQuery, searchParsed>>
    /\ UNCHANGED <<appVars, treemapVars, filterVars, engineVars, runVars, viewVars>>

\* the texts of the filter form
EmptyInputs ==
    [includeExtensionsInput |-> <<>>, excludeExtensionsInput |-> <<>>,
     includeNamesInput |-> <<>>, excludeNamesInput |-> <<>>,
     minSizeInput |-> <<>>, maxSizeInput |-> <<>>,
     includeRegexInput |-> <<>>, excludeRegexInput |-> <<>>,
     includePathsInput |-> <<>>, excludePathsInput |-> <<>>]

FilterInputs ==
    [includeExtensionsInput : {<<>>, <<"p", "n", "g", ",", " ", "j", "p", "g">>},
     excludeExtensionsInput : {<<>>, <<".", "P", "N", "G">>},
     includeNamesInput : {<<>>},
     excludeNamesInput : {<<>>, <<"r", "e", "p", "o", "r", "t">>},
     minSizeInput : {<<>>, <<"1", "2", "m", "b">>},
     maxSizeInput : {<<>>},
     includeRegexInput : {<<>>, <<"p", "h", "o", "t", "o">>},
     excludeRegexInput : {<<>>, <<"d", "o", "c", "s">>, <<"/", "p", "i", "c", "s", "/", "g">>},
     includePathsInput : {<<>>, <<"/", "p", "i", "c", "s">>},
     excludePathsInput : {<<>>, <<"d", "o", "c", "s">>}]

\* no file has been tested yet
NoFile == NoEntry

\* the filter form is empty
FilterIdle ==
    /\ filterInputs = EmptyInputs
    /\ scanFilters = advancedFilters(EmptyInputs)
    /\ filterMatchers = buildFilterMatchers(advancedFilters(EmptyInputs))
    /\ filtersBuilt = FALSE
    /\ filteredFile = NoFile
    /\ isAccepted = FALSE

\* the filter form has been filled in; the memos have not been computed
FilterTyped ==
    /\ filterInputs \in FilterInputs
    /\ scanFilters = advancedFilters(EmptyInputs)
    /\ filterMatchers = buildFilterMatchers(advancedFilters(EmptyInputs))
    /\ filtersBuilt = FALSE
    /\ filteredFile = NoFile
    /\ isAccepted = FALSE

\* the scanFilters and filterMatchers memos
BuildFilters ==
    /\ ~filtersBuilt
    /\ scanFilters' = advancedFilters(filterInputs)
    /\ filterMatchers' = buildFilterMatchers(advancedFilters(filterInputs))
    /\ filtersBuilt' = TRUE
    /\ UNCHANGED <<filterInputs, filteredFile, isAccepted>>
    /\ UNCHANGED <<appVars, treemapVars, searchVars, engineVars, runVars, viewVars>>

\* one call matchesFilterFile(f, filterMatchers) of getLargestFilesForNode
FilterFile(f) ==
    /\ filtersBuilt
    /\ filteredFile' = f
    /\ isAccepted' = matchesFilterFile(f, filterMatchers).accepted
    /\ filterMatchers' = matchesFilterFile(f, filterMatchers).matchers
    /\ UNCHANGED <<filterInputs, scanFilters, filtersBuilt>>
    /\ UNCHANGED <<appVars, treemapVars, searchVars, engineVars, runVars, viewVars>>

----------------------------------------------------------------------------
(* Queries of word, name: and path: tokens, and queries of size tokens *)

\* word, name: and path: tokens a query is written with
TermTokenPool ==
    <<<<"P", "i", "c", "s">>,
      <<"n", "a", "m", "e", ":", "p", "h", "o", "t", "o">>,
      <<"n", "a", "m", "e", ":", "v", "a", "c", "a", "t", "i", "o", "n">>,
      <<"p", "a", "t", "h", ":", "d", "o", "c", "s">>,
      <<"p", "a", "t", "h", ":", "P", "I", "C", "S">>,
      <<"r", "e", "p", "o", "r", "t">>>>

\* size tokens a query is written with, and the bounds in bytes each one states
SizeTokenPool ==
    <<[text |-> <<"s", "i", "z", "e", ">", "1", "0", "m", "b">>,
       min |-> 10485760, max |-> NoSize],
      [text |-> <<"s", "i", "z", "e", ">", "=", "1", "0", "m", "b">>,
       min |-> 10485760, max |-> NoSize],
      [text |-> <<"s", "i", "z", "e", "<", "1", "0", "m", "b">>,
       min |-> NoSize, max |-> 10485760],
      [text |-> <<"s", "i", "z", "e", "<", "=", "1", "0", "m", "b">>,
       min |-> NoSize, max |-> 10485760],
      [text |-> <<"s", "i", "z", "e", "=", "1", "0", "m", "b">>,
       min |-> 10485760, max |-> 10485760],
      [text |-> <<"s", "i", "z", "e", ">", "5", "1", "2">>,
       min |-> 512, max |-> NoSize],
      [text |-> <<"s", "i", "z", "e", "<", "1", ".", "5", "k", "b">>,
       min |-> NoSize, max |-> 1536],
      [text |-> <<"S", "i", "z", "e", "<", "=", "1", "G", "B">>,
       min |-> NoSize, max |-> 1073741824]>>

\* the lists of up to MaxTokens tokens of a pool of n tokens
TokenListsOf(n) == UNION {[1..k -> 1..n] : k \in 1..MaxTokens}

RECURSIVE JoinFrom(_, _)
\* the tokens of a list, separated by a blank
JoinFrom(pool, list) ==
    IF Len(list) = 1 THEN pool[list[1]]
    ELSE pool[list[1]] \o <<" ">> \o JoinFrom(pool, Tail(list))

TermQueries == {JoinFrom(TermTokenPool, list) : list \in TokenListsOf(Len(TermTokenPool))}

SizeQueries ==
    {JoinFrom([i \in 1..Len(SizeTokenPool) |-> SizeTokenPool[i].text], list) :
        list \in TokenListsOf(Len(SizeTokenPool))}

\* the search box holds a query of word, name: and path: tokens
TermsTyped ==
    /\ searchQuery \in TermQueries
    /\ searchParams = EmptyParams
    /\ searchParsed = FALSE
    /\ searchedEntry = NoEntry
    /\ isMatch = FALSE

\* the search box holds a query of size tokens
SizesTyped ==
    /\ searchQuery \in SizeQueries
    /\ searchParams = EmptyParams
    /\ searchParsed = FALSE
    /\ searchedEntry = NoEntry
    /\ isMatch = FALSE

\* regex: tokens with valid and invalid patterns next to a name: and a size token,
\* and for each token whether it states a regular expression and its source
RegexTokenPool ==
    <<[text |-> <<"r", "e", "g", "e", "x", ":", "p", "h", "o", "t", "o">>,
       valid |-> TRUE, source |-> <<"p", "h", "o", "t", "o">>],
      [text |-> <<"r", "e", "g", "e", "x", ":", "r", "e", "p", "o", "r", "t">>,
       valid |-> TRUE, source |-> <<"r", "e", "p", "o", "r", "t">>],
      [text |-> <<"r", "e", "g", "e", "x", ":", "(", "p", "h", "o", "t", "o">>,
       valid |-> FALSE, source |-> <<>>],
      [text |-> <<"r", "e", "g", "e", "x", ":", "/", "d", "o", "c", "s", "/", "q">>,
       valid |-> FALSE, source |-> <<>>],
      [text |-> <<"n", "a", "m", "e", ":", "v", "a", "c", "a", "t", "i", "o", "n">>,
       valid |-> FALSE, source |-> <<>>],
      [text |-> <<"s", "i", "z", "e", ">", "1", "0", "m", "b">>,
       valid |-> FALSE, source |-> <<>>]>>

RegexQueries ==
    {JoinFrom([i \in 1..Len(RegexTokenPool) |-> RegexTokenPool[i].text], list) :
        list \in TokenListsOf(Len(RegexTokenPool))}

\* the search box holds a query with regex: tokens
RegexTyped ==
    /\ searchQuery \in RegexQueries
    /\ searchParams = EmptyParams
    /\ searchParsed = FALSE
    /\ searchedEntry = NoEntry
    /\ isMatch = FALSE

----------------------------------------------------------------------------
(* Scan history of the UI store (addScanHistory, clearScanHistory) *)

\* more folders than the scan history keeps
HistoryPaths ==
    <<"/d01", "/d02", "/d03", "/d04", "/d05", "/d06", "/d07", "/d08", "/d09", "/d10",
      "/d11", "/d12">>

\* what a call of the store's history functions leaves alone
HistoryFrame ==
    UNCHANGED <<connVars, listVars, diskVars, nextId, summary, selectedPath, isScanning,
                scanStatus, error, remoteRequestId, activeScanPath, activeScanMode,
                lastScanPath, lastScanMode, unlisten, startPending, leaked,
                scanCompleteTimeout, scanRootPath, sendPending, hasAutoScan, cancelSent,
                terminated, pureVars>>

\* a call addScanHistory(path) of the store
AddScanHistory(path) ==
    /\ scanHistory' = addScanHistory(scanHistory, path)
    /\ last' = Obs("add-history", NoId, path)
    /\ HistoryFrame

\* a call clearScanHistory() of the store
ClearScanHistory ==
    /\ scanHistory' = <<>>
    /\ last' = Obs("clear-history", NoId, NoPath)
    /\ HistoryFrame

\* the folders that are scanned next: the most recent one again, the one that
\* follows it in HistoryPaths (the first one after the last), or the oldest
\* one of the history
ScannedNext ==
    IF scanHistory = <<>> THEN {HistoryPaths[1]}
    ELSE LET k == CHOOSE i \in 1..Len(HistoryPaths) : HistoryPaths[i] = scanHistory[1]
         IN {scanHistory[1], HistoryPaths[(k % Len(HistoryPaths)) + 1],
             scanHistory[Len(scanHistory)]}

----------------------------------------------------------------------------
(* Selection history (createNextSelectionHistory, back and forward) *)

MAX_SELECTION_HISTORY == 50

\* a SelectionEntry of a folder (no parentPath) and of a file
FolderEntry(path) == [kind |-> "folder", path |-> path, parentPath |-> NoPath]

FileEntry(path, parentPath) == [kind |-> "file", path |-> path, parentPath |-> parentPath]

\* the entries the user selects: a folder, a file in it, and a folder that
\* has the path of the file
SelectionEntries ==
    <<FolderEntry("/a"), FileEntry("/a/f", "/a"), FolderEntry("/a/f")>>

\* isSameSelection(left, right), left being the entry at index lastIndex of
\* the list or undefined
isSameSelection(items, lastIndex, right) ==
    /\ lastIndex >= 1
    /\ items[lastIndex].kind = right.kind
    /\ items[lastIndex].path = right.path
    /\ items[lastIndex].parentPath = right.parentPath

\* the forward entries are kept and the new entry is put after them
appendKeepingForward(items, currentIndex, entry, limit) ==
    LET next == Append(items, entry)
        trimmed == IF Len(next) > limit
                   THEN SubSeq(next, Len(next) - limit + 1, Len(next)) ELSE next
    IN IF isSameSelection(items, Len(items), entry)
       THEN [history |-> items, index |-> Len(items) - 1]
       ELSE [history |-> trimmed, index |-> Len(trimmed) - 1]

\* createNextSelectionHistory(items, currentIndex, entry, limit); the index is
\* zero-based as in the code
createNextSelectionHistory(items, currentIndex, entry, limit) ==
    LET atLeast == IF currentIndex > -1 THEN currentIndex ELSE -1
        safeIndex == IF atLeast < Len(items) - 1 THEN atLeast ELSE Len(items) - 1
        head == SubSeq(items, 1, safeIndex + 1)
        next == Append(head, entry)
        trimmed == IF Len(next) > limit
                   THEN SubSeq(next, Len(next) - limit + 1, Len(next)) ELSE next
    IN IF isSameSelection(head, Len(head), entry)
       THEN [history |-> head, index |-> Len(head) - 1]
       ELSE [history |-> trimmed, index |-> Len(trimmed) - 1]

\* nothing has been selected
SelectionIdle ==
    /\ selectionHistory = <<>>
    /\ selectionHistoryIndex = -1
    /\ historyIndexRef = -1
    /\ selectedFilePath = NoPath

\* addSelectionHistory(entry)
addSelectionHistory(entry) ==
    LET result == createNextSelectionHistory(selectionHistory, historyIndexRef, entry,
                                             MAX_SELECTION_HISTORY)
    IN /\ selectionHistory' = result.history
       /\ historyIndexRef' = result.index
       /\ selectionHistoryIndex' = result.index

\* what a selection step leaves alone
SelectionFrame ==
    UNCHANGED <<connVars, listVars, diskVars, nextId, summary, isScanning, scanStatus,
                error, scanHistory, remoteRequestId, activeScanPath, activeScanMode,
                lastScanPath, lastScanMode, unlisten, startPending, leaked,
                scanCompleteTimeout, scanRootPath, sendPending, hasAutoScan, cancelSent,
                terminated, treemapVars, searchVars, filterVars, engineVars, runVars,
                largestVars, labelVars>>

\* selectFolder(path)
SelectFolder(path) ==
    /\ selectedFilePath' = NoPath
    /\ selectedPath' = path
    /\ addSelectionHistory(FolderEntry(path))
    /\ last' = Obs("select-folder", NoId, path)
    /\ SelectionFrame

\* selectFile(path, parentPath)
SelectFile(path, parentPath) ==
    /\ selectedFilePath' = path
    /\ selectedPath' = parentPath
    /\ addSelectionHistory(FileEntry(path, parentPath))
    /\ last' = Obs("select-file", NoId, path)
    /\ SelectionFrame

\* the user selects an entry of the list: a folder or a file
Select(entry) ==
    IF entry.kind = "file" THEN SelectFile(entry.path, entry.parentPath)
    ELSE SelectFolder(entry.path)

\* applySelectionFromHistory(entry)
applySelectionFromHistory(entry) ==
    IF entry.kind = "file"
    THEN selectedFilePath' = entry.path /\ selectedPath' = entry.parentPath
    ELSE selectedFilePath' = NoPath /\ selectedPath' = entry.path

\* navigateToHistoryIndex(nextIndex)
navigateToHistoryIndex(nextIndex) ==
    /\ ~(nextIndex < 0 \/ nextIndex >= Len(selectionHistory))
    /\ selectionHistoryIndex' = nextIndex
    /\ historyIndexRef' = nextIndex
    /\ applySelectionFromHistory(selectionHistory[nextIndex + 1])
    /\ UNCHANGED selectionHistory

\* goBack()
GoBack ==
    /\ ~(selectionHistoryIndex <= 0)
    /\ navigateToHistoryIndex(selectionHistoryIndex - 1)
    /\ last' = Obs("go-back", NoId, NoPath)
    /\ SelectionFrame

\* goForward()
GoForward ==
    /\ ~(selectionHistoryIndex >= Len(selectionHistory) - 1)
    /\ navigateToHistoryIndex(selectionHistoryIndex + 1)
    /\ last' = Obs("go-forward", NoId, NoPath)
    /\ SelectionFrame

\* the entry the user selects next: the current one again, or the one that
\* follows it in SelectionEntries, the first one after the last
SelectedNext ==
    IF selectionHistoryIndex < 0 THEN {SelectionEntries[1]}
    ELSE LET current == selectionHistory[selectionHistoryIndex + 1]
             k == CHOOSE i \in 1..Len(SelectionEntries) : SelectionEntries[i] = current
         IN {current, SelectionEntries[(k % Len(SelectionEntries)) + 1]}

----------------------------------------------------------------------------
(* Largest files of a node (getLargestFilesForNode) *)

\* the files of the node, its children and its grandchild, in the order of
\* their ScanNodes
NodeFilePaths == <<"/a/one.bin", "/a/two.tmp", "/a/b/three.bin", "/a/c/four.bin",
                   "/a/c/d/five.tmp">>

\* the ScanNode /a whose files have the given sizes: two files of its own, the
\* child /a/b with one file, the child /a/c with one file and the child /a/c/d
ScanNodeOf(sizes) ==
    LET file(i) == [path |-> NodeFilePaths[i], sizeBytes |-> sizes[i]]
        node(files, nodes) == [files |-> files, children |-> nodes]
    IN node(<<file(1), file(2)>>,
            <<node(<<file(3)>>, <<>>),
              node(<<file(4)>>, <<node(<<file(5)>>, <<>>)>>)>>)

\* the include predicates: every file, the files that are not .tmp files, and
\* the files of the node itself
IncludePredicates ==
    {Range(NodeFilePaths),
     {NodeFilePaths[1], NodeFilePaths[3], NodeFilePaths[4]},
     {NodeFilePaths[1], NodeFilePaths[2]}}

RECURSIVE sortDescending(_)
\* files.sort((a, b) => b.sizeBytes - a.sizeBytes), a stable sort
sortDescending(files) ==
    IF files = <<>> THEN <<>>
    ELSE LET sorted == sortDescending(SubSeq(files, 1, Len(files) - 1))
             file == files[Len(files)]
             before == Cardinality({i \in 1..Len(sorted) :
                                       sorted[i].sizeBytes >= file.sizeBytes})
         IN SubSeq(sorted, 1, before) \o <<file>> \o SubSeq(sorted, before + 1, Len(sorted))

\* a full list is left as it is
keepFirstFiles(largest, file, limit) ==
    IF file.sizeBytes <= 0 THEN largest
    ELSE IF Len(largest) < limit THEN sortDescending(Append(largest, file))
    ELSE largest

\* updateLargestFiles(largest, file, limit): the list afterwards
updateLargestFiles(largest, file, limit) ==
    LET smallest == IF Len(largest) > 0 THEN largest[Len(largest)].sizeBytes ELSE 0
    IN IF file.sizeBytes <= 0 THEN largest
       ELSE IF Len(largest) < limit THEN sortDescending(Append(largest, file))
       ELSE IF file.sizeBytes <= smallest THEN largest
       ELSE SubSeq(sortDescending(Append(largest, file)), 1, limit)

RECURSIVE updateWithFiles(_, _, _, _)
\* the loop of getLargestFilesForNode over the files of one node
updateWithFiles(largest, files, limit, include) ==
    IF files = <<>> THEN largest
    ELSE updateWithFiles(IF files[1].path \in include
                         THEN updateLargestFiles(largest, files[1], limit)
                         ELSE largest,
                         Tail(files), limit, include)

RECURSIVE walkStack(_, _, _, _)
\* the while loop of getLargestFilesForNode: the node on top of the stack is
\* popped, its files are offered and its children are pushed
walkStack(stack, largest, limit, include) ==
    IF stack = <<>> THEN largest
    ELSE LET current == stack[Len(stack)]
         IN walkStack(SubSeq(stack, 1, Len(stack) - 1) \o current.children,
                      updateWithFiles(largest, current.files, limit, include),
                      limit, include)

\* getLargestFilesForNode(node, limit, shouldInclude)
getLargestFilesForNode(node, limit, include) == walkStack(<<node>>, <<>>, limit, include)

\* a node is shown and its largest files have not been computed
LargestProps ==
    /\ activeNode \in {ScanNodeOf(sizes) : sizes \in [1..Len(NodeFilePaths) -> 0..MaxFileSize]}
    /\ largestLimit \in 0..MaxLimit
    /\ shouldInclude \in IncludePredicates
    /\ largestFiles = <<>>
    /\ largestComputed = FALSE

\* the memo of the largest files of the active node
ComputeLargestFiles ==
    /\ ~largestComputed
    /\ largestFiles' = getLargestFilesForNode(activeNode, largestLimit, shouldInclude)
    /\ largestComputed' = TRUE
    /\ UNCHANGED <<activeNode, largestLimit, shouldInclude>>
    /\ UNCHANGED <<appVars, treemapVars, searchVars, filterVars, engineVars, runVars,
                   selectionVars, labelVars>>

\* no list of largest files has been computed
LargestIdle ==
    /\ activeNode = <<>>
    /\ largestLimit = 0
    /\ shouldInclude = {}
    /\ largestFiles = <<>>
    /\ largestComputed = FALSE

----------------------------------------------------------------------------
(* Labels shortened in the middle (truncateMiddle) *)

\* the path the labels are cut from
LabelSource == <<"/", "a", "/", "b", "i", "g", "/", "f", ".", "x", "/", "y", "z">>

\* Math.floor(keep * 0.35); the product of the doubles rounds down to the same
\* whole number as the exact one for every keep below 180
floorOfShare(keep) == (keep * 35) \div 100

\* truncateMiddle(value, maxLength), maxLength given in halves
truncateMiddle(value, maxLengthHalves) ==
    LET safeMax == maxLengthHalves \div 2
        keep == safeMax - 3
        startLen == IF floorOfShare(keep) > 2 THEN floorOfShare(keep) ELSE 2
        endLen == IF keep - startLen > 2 THEN keep - startLen ELSE 2
    IN IF safeMax <= 0 THEN <<>>
       ELSE IF Len(value) <= safeMax THEN value
       ELSE IF safeMax <= 4 THEN slice(value, 0, safeMax)
       ELSE slice(value, 0, startLen) \o <<".", ".", ".">>
               \o sliceFrom(value, Len(value) - endLen)

\* a label and the length it is to be shortened to
LabelProps ==
    /\ labelValue \in {SubSeq(LabelSource, 1, n) : n \in 0..MaxLabel}
    /\ labelMaxLength \in (-2)..(2 * MaxLength + 1)
    /\ labelText = <<>>
    /\ labelTruncated = FALSE

\* a label is rendered: truncateMiddle(value, maxLength)
TruncateLabel ==
    /\ ~labelTruncated
    /\ labelText' = truncateMiddle(labelValue, labelMaxLength)
    /\ labelTruncated' = TRUE
    /\ UNCHANGED <<labelValue, labelMaxLength>>
    /\ UNCHANGED <<appVars, treemapVars, searchVars, filterVars, engineVars, runVars,
                   selectionVars, largestVars>>

\* no label has been shortened
LabelIdle ==
    /\ labelValue = <<>>
    /\ labelMaxLength = 0
    /\ labelText = <<>>
    /\ labelTruncated = FALSE

\* the views show nothing
ViewIdle == SelectionIdle /\ LargestIdle /\ LabelIdle

----------------------------------------------------------------------------
(* Scan engine: the walk of a directory tree, its aggregates and snapshots *)

\* the directories of the scanned volume
RootDir == "/root"
SubDir == "/root/sub"
DeepDir == "/root/sub/deep"
LockedDir == "/root/locked"
MissingDir == "/missing"

Directories == {RootDir, SubDir, DeepDir, LockedDir}

\* the directory that contains a directory
ParentOf == [d \in Directories \ {RootDir} |->
                CASE d = SubDir -> RootDir
                  [] d = DeepDir -> SubDir
                  [] d = LockedDir -> RootDir]

\* directories whose listing raises a permission error
Unreadable == {LockedDir}

\* the files of the volume: path, containing directory, extension
DiskFiles ==
    {[path |-> "/root/a.txt", dir |-> RootDir, ext |-> "txt"],
     [path |-> "/root/sub/b.txt", dir |-> SubDir, ext |-> "txt"],
     [path |-> "/root/sub/deep/c.tmp", dir |-> DeepDir, ext |-> "tmp"],
     [path |-> "/root/sub/deep/d.txt", dir |-> DeepDir, ext |-> "txt"]}

FilePaths == {f.path : f \in DiskFiles}

\* sizes a file may have
FileSizes == {10, 20}

\* the excludeExtensions of the structural filter of a scan
ExcludedExtensions == {{}, {"tmp"}}

\* no snapshot has been emitted
NoSnapshot == [final |-> FALSE, created |-> {}]

RECURSIVE Ancestors(_)
\* the directories above a directory, up to the root of the scan
Ancestors(d) ==
    IF d = RootDir THEN {} ELSE {ParentOf[d]} \cup Ancestors(ParentOf[d])

\* the nodes whose aggregates grow when only the parent is told of a new entry
ParentOnly(d) ==
    IF d = RootDir THEN {d} ELSE {d, ParentOf[d]}

\* the nodes whose aggregates grow when an entry of directory d is included:
\* the node of d and every node above it
Credited(d) == {d} \cup Ancestors(d)

RECURSIVE SumSizes(_)
\* the bytes of a set of ScanFiles
SumSizes(files) ==
    IF files = {} THEN 0
    ELSE LET f == CHOOSE x \in files : TRUE
         IN f.sizeBytes + SumSizes(files \ {f})

\* the files of a directory that pass the structural filter, as ScanFiles
IncludedFiles(d) ==
    {[path |-> f.path, sizeBytes |-> diskSize[f.path]] :
        f \in {x \in DiskFiles : x.dir = d /\ x.ext \notin excludedExts}}

\* the ScanSummary of the aggregates that are visible now
Snapshot(final) ==
    [final |-> final,
     created |-> created,
     files |-> nodeFiles,
     children |-> nodeChildren,
     sizeBytes |-> nodeSize,
     fileCount |-> nodeFileCount,
     dirCount |-> nodeDirCount,
     totalBytes |-> nodeSize[RootDir],
     totalFiles |-> nodeFileCount[RootDir],
     totalDirs |-> nodeDirCount[RootDir]]

\* aggregates of an engine that has walked nothing
NoAggregates ==
    /\ workQueue = {}
    /\ created = {}
    /\ nodeFiles = [d \in Directories |-> {}]
    /\ nodeChildren = [d \in Directories |-> {}]
    /\ nodeSize = [d \in Directories |-> 0]
    /\ nodeFileCount = [d \in Directories |-> 0]
    /\ nodeDirCount = [d \in Directories |-> 0]

\* no scan has been requested
EngineIdle ==
    /\ diskSize = [p \in FilePaths |-> 10]
    /\ excludedExts = {}
    /\ engineStatus = "idle"
    /\ cancelToken = FALSE
    /\ emitted = NoSnapshot
    /\ NoAggregates

\* a volume with files of some sizes, before the scan is requested
EngineReady ==
    /\ diskSize \in [FilePaths -> FileSizes]
    /\ excludedExts = {}
    /\ engineStatus = "idle"
    /\ cancelToken = FALSE
    /\ emitted = NoSnapshot
    /\ NoAggregates

\* scan(rootPath, options): a missing root is a fatal error without snapshots
StartEngine(rootPath, excludeExtensions) ==
    /\ engineStatus = "idle"
    /\ excludedExts' = excludeExtensions
    /\ IF rootPath \in Directories
       THEN engineStatus' = "running" /\ workQueue' = {rootPath}
       ELSE engineStatus' = "error" /\ workQueue' = {}
    /\ UNCHANGED <<diskSize, cancelToken, emitted, created, nodeFiles, nodeChildren,
                   nodeSize, nodeFileCount, nodeDirCount>>
    /\ UNCHANGED <<appVars, treemapVars, searchVars, filterVars, runVars, viewVars>>

\* a worker dequeues directory d: its node is created, the files that pass the
\* filter are materialised and counted on the node and on the nodes above it,
\* its subdirectories are enqueued; an unreadable directory keeps an empty node
VisitDirectory(d) ==
    /\ engineStatus = "running"
    /\ ~cancelToken
    /\ d \in workQueue
    /\ LET files == IF d \in Unreadable THEN {} ELSE IncludedFiles(d)
           subdirs == IF d \in Unreadable THEN {}
                      ELSE {c \in Directories \ {RootDir} : ParentOf[c] = d}
       IN /\ workQueue' = (workQueue \ {d}) \cup subdirs
          /\ created' = created \cup {d}
          /\ nodeFiles' = [nodeFiles EXCEPT ![d] = files]
          /\ nodeChildren' = IF d = RootDir THEN nodeChildren
                             ELSE [nodeChildren EXCEPT ![ParentOf[d]] = @ \cup {d}]
          /\ nodeSize' = [x \in Directories |->
                             IF x \in Credited(d) THEN nodeSize[x] + SumSizes(files)
                             ELSE nodeSize[x]]
          /\ nodeFileCount' = [x \in Directories |->
                                  IF x \in Credited(d)
                                  THEN nodeFileCount[x] + Cardinality(files)
                                  ELSE nodeFileCount[x]]
          /\ nodeDirCount' = [x \in Directories |->
                                 IF x \in Credited(d) \ {d} THEN nodeDirCount[x] + 1
                                 ELSE nodeDirCount[x]]
    /\ UNCHANGED <<diskSize, excludedExts, engineStatus, cancelToken, emitted>>
    /\ UNCHANGED <<appVars, treemapVars, searchVars, filterVars, runVars, viewVars>>

\* a progress snapshot of the aggregates visible now
EmitProgress ==
    /\ engineStatus = "running"
    /\ ~cancelToken
    /\ RootDir \in created
    /\ emitted' = Snapshot(FALSE)
    /\ UNCHANGED <<diskSize, excludedExts, engineStatus, cancelToken, workQueue, created,
                   nodeFiles, nodeChildren, nodeSize, nodeFileCount, nodeDirCount>>
    /\ UNCHANGED <<appVars, treemapVars, searchVars, filterVars, runVars, viewVars>>

\* the final snapshot, once every directory has been walked
EmitComplete ==
    /\ engineStatus = "running"
    /\ ~cancelToken
    /\ workQueue = {}
    /\ engineStatus' = "complete"
    /\ emitted' = Snapshot(TRUE)
    /\ UNCHANGED <<diskSize, excludedExts, cancelToken, workQueue, created,
                   nodeFiles, nodeChildren, nodeSize, nodeFileCount, nodeDirCount>>
    /\ UNCHANGED <<appVars, treemapVars, searchVars, filterVars, runVars, viewVars>>

\* cancel(): sets the shared token of a running scan, does nothing otherwise
CancelEngine ==
    /\ cancelToken' = (cancelToken \/ engineStatus = "running")
    /\ UNCHANGED <<diskSize, excludedExts, engineStatus, emitted, workQueue, created,
                   nodeFiles, nodeChildren, nodeSize, nodeFileCount, nodeDirCount>>
    /\ UNCHANGED <<appVars, treemapVars, searchVars, filterVars, runVars, viewVars>>

\* the workers see the token at a directory boundary: the partial aggregates
\* are discarded and the scan ends as cancelled
UnwindEngine ==
    /\ engineStatus = "running"
    /\ cancelToken
    /\ engineStatus' = "cancelled"
    /\ workQueue' = {}
    /\ created' = {}
    /\ nodeFiles' = [d \in Directories |-> {}]
    /\ nodeChildren' = [d \in Directories |-> {}]
    /\ nodeSize' = [d \in Directories |-> 0]
    /\ nodeFileCount' = [d \in Directories |-> 0]
    /\ nodeDirCount' = [d \in Directories |-> 0]
    /\ UNCHANGED <<diskSize, excludedExts, cancelToken, emitted>>
    /\ UNCHANGED <<appVars, treemapVars, searchVars, filterVars, runVars, viewVars>>

----------------------------------------------------------------------------
(* Treemap: the layout of a node's children (features/scan/Treemap.tsx) *)

\* JavaScript numbers of the layout, kept exact as reduced fractions n/d
RECURSIVE Gcd(_, _)
Gcd(a, b) == IF b = 0 THEN a ELSE Gcd(b, a % b)

Frac(n, d) == LET g == Gcd(n, d) IN [n |-> n \div g, d |-> d \div g]

Whole(k) == [n |-> k, d |-> 1]

Plus(a, b) == Frac(a.n * b.d + b.n * a.d, a.d * b.d)

Minus(a, b) == Frac(a.n * b.d - b.n * a.d, a.d * b.d)

Times(a, b) == Frac(a.n * b.n, a.d * b.d)

Greater(a, b) == a.n * b.d > b.n * a.d

\* the children lists a node may have: child i has path i
SizeLists == UNION {[1..n -> 0..MaxSize] : n \in 0..MaxChildren}

ScanNodes(sizes) == [i \in 1..Len(sizes) |-> [path |-> i, sizeBytes |-> sizes[i]]]

ChildLists == {ScanNodes(sizes) : sizes \in SizeLists}

Sides == 1..MaxSide

\* sumNodeSizes(nodes)
RECURSIVE sumNodeSizes(_)
sumNodeSizes(nodes) ==
    IF nodes = <<>> THEN 0 ELSE nodes[1].sizeBytes + sumNodeSizes(Tail(nodes))

\* one step of the stable sort: node goes behind every node that is not smaller
InsertBySize(node, sorted) ==
    LET k == Cardinality({i \in 1..Len(sorted) : sorted[i].sizeBytes >= node.sizeBytes})
    IN SubSeq(sorted, 1, k) \o <<node>> \o SubSeq(sorted, k + 1, Len(sorted))

\* sortBySize(nodes): [...nodes].sort((a, b) => b.sizeBytes - a.sizeBytes), stable
RECURSIVE sortBySize(_)
sortBySize(nodes) ==
    IF nodes = <<>> THEN <<>>
    ELSE InsertBySize(nodes[Len(nodes)], sortBySize(SubSeq(nodes, 1, Len(nodes) - 1)))

\* the loop of getSplitIndex from node i on, with the sum of the nodes before it:
\* currentSum >= total / 2 is compared without the division
RECURSIVE splitLoop(_, _, _, _)
splitLoop(nodes, total, i, currentSum) ==
    IF i > Len(nodes) THEN 1
    ELSE IF 2 * (currentSum + nodes[i].sizeBytes) >= total THEN i
    ELSE splitLoop(nodes, total, i + 1, currentSum + nodes[i].sizeBytes)

\* a split that always puts the largest node alone into group A
SplitOffLargest(nodes, total) == 1

\* getSplitIndex(nodes, total)
getSplitIndex(nodes, total) == splitLoop(nodes, total, 1, 0)

\* a split that gives both groups the same share
EvenRatio(sizeA, total) == Frac(1, 2)

\* const ratioA = sizeA / total
ratioA(sizeA, total) == Frac(sizeA, total)

\* recursiveSplit(nodes, x, y, w, h)
RECURSIVE recursiveSplit(_, _, _, _, _)
recursiveSplit(nodes, x, y, w, h) ==
    IF Len(nodes) = 0 THEN <<>>
    ELSE IF Len(nodes) = 1
    THEN <<[x |-> x, y |-> y, w |-> w, h |-> h, node |-> nodes[1]]>>
    ELSE LET sorted == sortBySize(nodes)
             total == sumNodeSizes(sorted)
         IN IF total <= 0 THEN <<>>
            ELSE LET splitIndex == getSplitIndex(sorted, total)
                     groupA == SubSeq(sorted, 1, splitIndex)
                     groupB == SubSeq(sorted, splitIndex + 1, Len(sorted))
                     sizeA == sumNodeSizes(groupA)
                     ratio == ratioA(sizeA, total)
                 IN IF Greater(w, h)
                    THEN LET wA == Times(w, ratio)
                         IN recursiveSplit(groupA, x, y, wA, h)
                            \o recursiveSplit(groupB, Plus(x, wA), y, Minus(w, wA), h)
                    ELSE LET hA == Times(h, ratio)
                         IN recursiveSplit(groupA, x, y, w, hA)
                            \o recursiveSplit(groupB, x, Plus(y, hA), w, Minus(h, hA))

\* the Treemap component renders: useMemo(() => recursiveSplit(rootNode.children,
\* 0, 0, width, height), [rootNode, width, height])
RenderTreemap ==
    /\ ~rendered
    /\ rects' = recursiveSplit(children, Whole(0), Whole(0), Whole(width), Whole(height))
    /\ rendered' = TRUE
    /\ UNCHANGED <<children, width, height>>
    /\ UNCHANGED <<appVars, searchVars, filterVars, engineVars, runVars, viewVars>>

\* no treemap is mounted
TreemapIdle ==
    /\ children = <<>>
    /\ width = 1
    /\ height = 1
    /\ rects = <<>>
    /\ rendered = FALSE

\* a treemap is mounted with some children and some size, not yet rendered
TreemapProps ==
    /\ children \in ChildLists
    /\ width \in Sides
    /\ height \in Sides
    /\ rects = <<>>
    /\ rendered = FALSE

Init == InitApp /\ TreemapIdle /\ SearchIdle /\ FilterIdle /\ EngineIdle /\ RunsIdle /\ ViewIdle

InitTreemap == InitApp /\ TreemapProps /\ SearchIdle /\ FilterIdle /\ EngineIdle /\ RunsIdle /\ ViewIdle

InitSearch == InitApp /\ TreemapIdle /\ SearchTyped /\ FilterIdle /\ EngineIdle /\ RunsIdle /\ ViewIdle

InitFilter == InitApp /\ TreemapIdle /\ SearchIdle /\ FilterTyped /\ EngineIdle /\ RunsIdle /\ ViewIdle

InitTerms == InitApp /\ TreemapIdle /\ TermsTyped /\ FilterIdle /\ EngineIdle /\ RunsIdle /\ ViewIdle

InitSizes == InitApp /\ TreemapIdle /\ SizesTyped /\ FilterIdle /\ EngineIdle /\ RunsIdle /\ ViewIdle

InitRegex == InitApp /\ TreemapIdle /\ RegexTyped /\ FilterIdle /\ EngineIdle /\ RunsIdle /\ ViewIdle

InitLargest ==
    /\ InitApp /\ TreemapIdle /\ SearchIdle /\ FilterIdle /\ EngineIdle /\ RunsIdle
    /\ SelectionIdle /\ LargestProps /\ LabelIdle

InitLabel ==
    /\ InitApp /\ TreemapIdle /\ SearchIdle /\ FilterIdle /\ EngineIdle /\ RunsIdle
    /\ SelectionIdle /\ LargestIdle /\ LabelProps

InitEngine ==
    InitApp /\ TreemapIdle /\ SearchIdle /\ FilterIdle /\ EngineReady /\ RunsIdle /\ ViewIdle

----------------------------------------------------------------------------
(* Specifications *)

\* the server list under Connect / Disconnect clicks, token edits, settled
\* connect calls and pushed status events
NextConn ==
    /\ UNCHANGED pureVars
    /\ \/ \E s \in Servers : HandleConnect(s)
       \/ \E s \in Servers : ConnectResolved(s)
       \/ \E s \in Servers : ConnectRejected(s)
       \/ \E s \in Servers : HandleDisconnect(s)
       \/ \E s \in Servers, ok \in BOOLEAN : DisconnectSettled(s, ok)
       \/ \E t \in Tokens : HandleUpdateToken("B", t)
       \/ \E st \in Statuses, a \in Addresses :
             RemoteStatusEvent(st, a, IF st = "error" THEN ConnectFailedMsg ELSE NoMsg)
       \/ \E c \in BOOLEAN : PanelStatusReply(c)
       \/ \E c \in BOOLEAN, a \in Addresses : ViewStatusReply(c, a)

SpecConn == Init /\ [][NextConn]_vars

\* the connection of server A coming and going, as far as the other
\* specifications need it
LinkUpDown ==
    \E st \in {"connected", "disconnected"} : RemoteStatusEvent(st, AddressOf("A"), NoMsg)

\* the remote-scan dialog opened by handleScan on a connected client; the open
\* dialog covers the window and with it the scan buttons
OpenRemoteScanModal ==
    /\ ~isRemoteScanOpen
    /\ isRemoteConnected /\ remoteSyncEnabled
    /\ HandleScan(NoPath, FALSE)

\* the list requests and list-complete payloads of the listing specification
ListRequestPaths == {"/a"}
ListResponses ==
    {NoListData,
     [path |-> "/", os |-> "unix", entries |-> Entries("/")],
     [path |-> "/a", os |-> "unix", entries |-> Entries("/a")],
     [path |-> "/", os |-> "windows", entries |-> Entries(NoPath)]}

\* the remote-scan dialog: listing requests, their responses and watchdogs
NextList ==
    /\ UNCHANGED pureVars
    /\ \/ LinkUpDown
       \/ nextId <= MaxListRequests /\ OpenRemoteScanModal
       \/ \E p \in ListRequestPaths : nextId <= MaxListRequests /\ GoRemotePath(p)
       \/ \E p \in RemotePaths : nextId <= MaxListRequests /\ ToggleRemoteTreeNode(p)
       \/ \E id \in Ids : ListTimeout(id)
       \/ \E id \in EventIds, d \in ListResponses : OnListComplete(id, d)
       \/ \E id \in EventIds, g \in BOOLEAN : OnListError(id, g)

SpecList == Init /\ [][NextList]_vars

\* the listing of the remote root, which the dialog needs before a folder
\* can be selected
RootListing == [path |-> "/", os |-> "unix", entries |-> Entries("/")]

\* the summaries the events of a remote scan of /a carry: progress snapshots
\* and the final summary
FirstSnapshot == [root |-> "/a", snap |-> 1]
LastSnapshot == [root |-> "/a", snap |-> MaxSnap]

\* a remote scan: the dialog, the scan request, its events and its cancellation
NextRemote ==
    /\ UNCHANGED pureVars
    /\ \/ LinkUpDown
       \/ nextId <= MaxListRequests /\ OpenRemoteScanModal
       \/ OnListComplete(remoteListRequestId, RootListing)
       \/ SelectRemotePath("/a")
       \/ HandleRemoteScanConfirm
       \/ HandleCancelScan
       \/ ScanCompleteTimeoutFires
       \/ \E id \in EventIds, d \in {NoSummary, FirstSnapshot} : OnScanProgress(id, d)
       \/ \E id \in EventIds, d \in {NoSummary, LastSnapshot} : OnScanComplete(id, d)
       \/ \E id \in EventIds : OnScanError(id)
       \/ \E id \in EventIds : OnScanCancelled(id)

SpecRemote == Init /\ [][NextRemote]_vars

\* local scans: every way of starting one, the events of the scan, cancel
NextLocal ==
    /\ UNCHANGED pureVars
    /\ \/ \E f \in LocalFolders \cup {NoPath} : HandleScan(f, FALSE)
       \/ \E i \in 1..MaxHistory : HistoryShortcut(i)
       \/ \E f \in LocalFolders : StartupScan(f)
       \/ StartScanReturned
       \/ StartScanFailed
       \/ \E k \in {"scan-progress", "scan-complete"}, d \in Summaries : LocalScanEvent(k, d)
       \/ \E k \in {"scan-error", "scan-cancelled"} : LocalScanEvent(k, NoSummary)
       \/ HandleCancelScan
       \/ \E ok \in BOOLEAN : CommandSettled(ok)
       \/ ScanCompleteTimeoutFires

SpecLocal == Init /\ [][NextLocal]_vars

\* the disk-usage request of a remote scan
NextDisk ==
    /\ UNCHANGED pureVars
    /\ \/ LinkUpDown
       \/ nextId <= MaxListRequests /\ OpenRemoteScanModal
       \/ OnListComplete(remoteListRequestId, RootListing)
       \/ \E id \in Ids : ListTimeout(id)
       \/ SelectRemotePath("/a")
       \/ HandleRemoteScanConfirm
       \/ \E id \in EventIds : OnScanProgress(id, FirstSnapshot)
       \/ DiskUsageEffect
       \/ \E id \in EventIds, d \in DiskDatas : OnDiskInfo(id, d)
       \/ \E id \in EventIds : OnDiskError(id)

\* timers fire and effects run; nothing makes the server answer
DiskFairness ==
    /\ WF_vars(DiskUsageEffect /\ UNCHANGED pureVars)
    /\ WF_vars((\E id \in Ids : ListTimeout(id)) /\ UNCHANGED pureVars)

SpecDisk == Init /\ [][NextDisk]_vars /\ DiskFairness

\* the remote-scan dialog from opening to confirmation
NextDialog ==
    /\ UNCHANGED pureVars
    /\ \/ LinkUpDown
       \/ ToggleSync
       \/ \E fe \in BOOLEAN : ~isRemoteScanOpen /\ HandleScan(NoPath, fe)
       \/ \E id \in Ids, ok \in BOOLEAN : ListSendSettled(id, ok)
       \/ \E id \in EventIds : OnListComplete(id, RootListing)
       \/ \E p \in RemotePaths : SelectRemotePath(p)
       \/ CloseRemoteScanModal
       \/ HandleRemoteScanConfirm
       \/ DiskUsageEffect
       \/ \E ok \in BOOLEAN : LocalDiskSettled(ok)

SpecDialog == Init /\ [][NextDialog]_vars

\* the treemap of every small list of children in every small rectangle
NextTreemap == RenderTreemap

SpecTreemap == InitTreemap /\ [][NextTreemap]_vars

\* every query of the pool, parsed once and then applied to entries
NextSearch ==
    \/ ParseSearchQuery
    \/ \E e \in SearchEntries : SearchEntry(e)

SpecSearch == InitSearch /\ [][NextSearch]_vars

\* queries of word, name: and path: tokens
SpecTerms == InitTerms /\ [][NextSearch]_vars

\* queries of size tokens
SpecSizes == InitSizes /\ [][NextSearch]_vars

\* queries with valid and invalid regex: tokens
SpecRegex == InitRegex /\ [][NextSearch]_vars

\* every filling of the filter form, compiled once and then applied to files
NextFilter ==
    \/ BuildFilters
    \/ \E f \in SearchEntries : FilterFile(f)

SpecFilter == InitFilter /\ [][NextFilter]_vars

\* one scan of the volume, with or without a cancel request
NextEngine ==
    \/ \E r \in {RootDir, MissingDir}, x \in ExcludedExtensions : StartEngine(r, x)
    \/ \E d \in Directories : VisitDirectory(d)
    \/ EmitProgress
    \/ EmitComplete
    \/ CancelEngine
    \/ UnwindEngine

SpecEngine == InitEngine /\ [][NextEngine]_vars

\* local scans of one folder: started and cancelled by the user, restarted by
\* the timer, with the events of the engine's runs
NextRuns ==
    /\ UNCHANGED <<treemapVars, searchVars, filterVars, engineVars, viewVars>>
    /\ \/ \E f \in LocalFolders : RunHandleScan(f)
       \/ RunStartReturned
       \/ \E r \in Runs, k \in {"scan-progress", "scan-complete"}, d \in Summaries :
              RunEvent(r, k, d)
       \/ \E r \in Runs, k \in {"scan-error", "scan-cancelled"} : RunEvent(r, k, NoSummary)
       \/ RunHandleCancelScan
       \/ \E ok \in BOOLEAN : RunCancelSettled(ok)
       \/ RestartTimerFires
       \/ \E ok \in BOOLEAN : RestartCancelSettled(ok)

SpecRuns == Init /\ [][NextRuns]_vars

\* selections in the tree and the back and forward buttons
NextSelection ==
    \/ \E entry \in SelectedNext : Select(entry)
    \/ GoBack
    \/ GoForward

SpecSelection == Init /\ [][NextSelection]_vars

\* scans that complete one after the other, and the history being cleared
NextHistory ==
    \/ \E path \in ScannedNext : AddScanHistory(path)
    \/ ClearScanHistory

SpecHistory == Init /\ [][NextHistory]_vars

\* the list of largest files
NextLargest == ComputeLargestFiles

SpecLargest == InitLargest /\ [][NextLargest]_vars

\* the labels
NextLabel == TruncateLabel

SpecLabel == InitLabel /\ [][NextLabel]_vars

Next == NextConn \/ NextList \/ NextRemote \/ NextLocal \/ NextDisk \/ NextDialog
        \/ NextTreemap \/ NextSearch \/ NextFilter \/ NextEngine \/ NextRuns
        \/ NextSelection \/ NextHistory \/ NextLargest \/ NextLabel

Spec == Init /\ [][Next]_vars


----------------------------------------------------------------------------
(* Properties of the server list *)

\* C6: in every reachable state at most one server of the list has status
\* connecting
AtMostOneConnecting ==
    Cardinality({s \in Servers : remoteServers[s].status = "connecting"}) <= 1

----------------------------------------------------------------------------
(* Properties of the remote listing *)

\* C1: a list-complete response that carries the id of a request still in the
\* pending table is not dropped: the request leaves the table, and when the
\* response lists the requested path, the node of that path is listed and no
\* longer loading
ListResponseMatched ==
    [][\A id \in Ids :
          (/\ last'.op = "list-complete" /\ last'.id = id
           /\ remoteSyncEnabled
           /\ id \in DOMAIN remoteListRequestMap)
          => (/\ id \notin DOMAIN remoteListRequestMap'
              /\ (/\ remoteListRequestMap[id] # NoPath
                  /\ last'.path = remoteListRequestMap[id])
                 => (/\ remoteTree'[last'.path].listed
                     /\ ~remoteTree'[last'.path].loading))]_vars

\* C2: a list-complete or list-error response handled right after the
\* watchdog of its request changes neither the tree, the roots, the focus path,
\* the loading flag nor the list error
LateListResponseDiscarded ==
    [][(/\ last.op = "list-timeout"
        /\ last'.op \in {"list-complete", "list-error"}
        /\ last'.id = last.id)
       => UNCHANGED <<remoteTree, remoteTreeRoots, remoteFocusPath, remoteListLoading,
                      remoteListError>>]_vars

\* C8: every request of the pending table has its watchdog armed, and when the
\* watchdog of a request fires, the request leaves the pending table and the
\* timer table, and what it was loading (its node, or the listing as a whole
\* for a top-level request) stops loading with the timed-out error
ListWatchdogFails ==
    [][/\ DOMAIN remoteListRequestMap' \subseteq remoteListTimeouts'
       /\ \A id \in Ids :
             (last'.op = "list-timeout" /\ last'.id = id)
             => (/\ id \in remoteListTimeouts
                 /\ id \notin DOMAIN remoteListRequestMap'
                 /\ id \notin remoteListTimeouts'
                 /\ LET p == IF id \in DOMAIN remoteListRequestMap
                             THEN remoteListRequestMap[id] ELSE NoPath
                    IN  IF p = NoPath
                        THEN ~remoteListLoading' /\ remoteListError' = TimedOutMsg
                        ELSE p \in DOMAIN remoteTree'
                             => (/\ ~remoteTree'[p].loading
                                 /\ remoteTree'[p].error = TimedOutMsg))]_vars

\* the watchdog of a node request fired while the node was loading, and the
\* watchdog of a top-level request fired
NodeTimedOutSeen ==
    /\ last.op = "list-timeout"
    /\ \E p \in DOMAIN remoteTree :
          ~remoteTree[p].loading /\ remoteTree[p].error = TimedOutMsg
    /\ remoteListError = TimedOutMsg
    /\ ~remoteListLoading

----------------------------------------------------------------------------
(* Properties of scanning *)

ScanEvents == {"scan-progress", "scan-complete", "scan-error", "scan-cancelled"}

\* C3: once a terminal event was handled for a remote scan request, a
\* scan-progress or scan-complete event with the id of that request changes
\* neither the summary, the scanning flag nor the scan status
LateScanEventIgnored ==
    [][(/\ last'.op \in {"scan-progress", "scan-complete"}
        /\ last'.id \in terminated)
       => UNCHANGED <<summary, isScanning, scanStatus>>]_vars

\* C4: while a remote scan request is tracked, a scan event that carries
\* another id leaves the summary, the scanning flag, the error message and the
\* tracked id unchanged
MismatchedScanEventIgnored ==
    [][(/\ last'.op \in ScanEvents
        /\ last'.id # NoId
        /\ remoteRequestId # NoId
        /\ last'.id # remoteRequestId)
       => UNCHANGED <<summary, isScanning, error, remoteRequestId>>]_vars

\* a scan-complete event with the id of the listing request was handled while
\* the scan request was tracked and running
MismatchedScanEventSeen ==
    /\ last.op = "scan-complete"
    /\ last.id # NoId
    /\ remoteRequestId # NoId
    /\ last.id # remoteRequestId
    /\ isScanning

\* C5: no scan request is issued while a scan is in progress, unless a cancel
\* was issued for that scan before
NoScanWhileScanning ==
    [][last'.op = "scan-request" => (~isScanning \/ cancelSent)]_vars

\* C9: a remote disk-usage request that is tracked stops being tracked, also
\* when the server never answers it
DiskRequestFailsLocally ==
    (remoteDiskRequestId # NoId) ~> (remoteDiskRequestId = NoId)

\* C10: a remote scan, list or disk-usage request is sent only while the
\* active server is connected
RequestsOnlyWhileConnected ==
    [][(/\ last'.op \in {"scan-request", "list-request", "disk-request"}
        /\ last'.id # NoId)
       => isRemoteConnected]_vars

\* C11: a connect attempt for a server whose token is empty or blank leaves
\* that server with status error, and no connect call is made for it
BlankTokenConnectEndsInError ==
    [][\A s \in Servers :
          (/\ last'.op = "connect" /\ last'.path = s
           /\ Trim(remoteServers[s].token) = "")
          => (/\ remoteServers'[s].status = "error"
              /\ connectPending' = connectPending)]_vars

\* C12: a server's status becomes connected only from status connecting
ConnectedOnlyFromConnecting ==
    [][\A s \in Servers :
          (remoteServers'[s].status = "connected" /\ remoteServers[s].status # "connected")
          => remoteServers[s].status = "connecting"]_vars

CancelOps == {"cancel-remote", "cancel-local"}

\* C13 as stated: a cancel issued again for the same scan, and the outcome of
\* its command, change neither the summary, the scanning flag, the scan
\* status nor the tracked id, and set no error
CancelIsIdempotent ==
    [][(\/ (last'.op \in CancelOps /\ last'.path = "again")
        \/ (/\ last.op \in CancelOps /\ last.path = "again"
            /\ last'.op \in {"command-accepted", "command-rejected"}))
       => UNCHANGED <<summary, isScanning, scanStatus, remoteRequestId, error>>]_vars

\* C14: when a scan-cancelled event ends the scan, no error message is set and
\* no summary of the cancelled scan remains displayed
CancelClearsPartialSummary ==
    [][(last'.op = "scan-cancelled" /\ isScanning /\ ~isScanning')
       => (error' = error /\ summary' = NoSummary)]_vars

\* C15: when a scan-error event ends a scan that was started after another
\* scan had completed, the error message is presented and the summary of the
\* completed scan is still displayed
FailureKeepsPriorSummary ==
    [][(/\ last'.op = "scan-error" /\ isScanning /\ ~isScanning'
        /\ scanHistory # <<>>)
       => (error' # NoMsg /\ summary' = LastSnapshot)]_vars

----------------------------------------------------------------------------
(* Properties of the treemap layout *)

Area(r) == Times(r.w, r.h)

\* the rectangles returned for child i
RectsOf(i) == {k \in 1..Len(rects) : rects[k].node.path = i}

\* two rectangles of positive area share interior points
Overlap(a, b) ==
    /\ Greater(Area(a), Whole(0)) /\ Greater(Area(b), Whole(0))
    /\ Greater(Plus(a.x, a.w), b.x) /\ Greater(Plus(b.x, b.w), a.x)
    /\ Greater(Plus(a.y, a.h), b.y) /\ Greater(Plus(b.y, b.h), a.y)

\* rectangle r lies inside the input rectangle
Inside(r) ==
    /\ ~Greater(Plus(r.x, r.w), Whole(width))
    /\ ~Greater(Plus(r.y, r.h), Whole(height))

RECURSIVE AreaSum(_)
AreaSum(rs) == IF rs = <<>> THEN Whole(0) ELSE Plus(Area(rs[1]), AreaSum(Tail(rs)))

\* the rectangles lie inside the input rectangle, do not overlap and cover it
TilesExactly ==
    /\ \A k \in 1..Len(rects) : Inside(rects[k])
    /\ \A k, l \in 1..Len(rects) : k # l => ~Overlap(rects[k], rects[l])
    /\ AreaSum(rects) = Whole(width * height)

\* the area of rectangle r is to the input area as its child's size is to the total
Proportional(r) ==
    Times(Area(r), Whole(sumNodeSizes(children)))
        = Whole(width * height * r.node.sizeBytes)

\* C16 as stated: for children of positive total size the returned rectangles
\* tile the input rectangle, one per child, with areas proportional to the sizes
TreemapOnePerChild ==
    (rendered /\ sumNodeSizes(children) > 0)
    => /\ TilesExactly
       /\ \A i \in 1..Len(children) : Cardinality(RectsOf(i)) = 1
       /\ \A k \in 1..Len(rects) : Proportional(rects[k])

\* C16: for children of positive total size the returned rectangles tile the
\* input rectangle with areas proportional to the sizes; every child of positive
\* size has exactly one rectangle and a child of size zero has at most one
TreemapOnePerPositiveChild ==
    (rendered /\ sumNodeSizes(children) > 0)
    => /\ TilesExactly
       /\ \A i \in 1..Len(children) :
             IF children[i].sizeBytes > 0
             THEN Cardinality(RectsOf(i)) = 1
             ELSE Cardinality(RectsOf(i)) <= 1
       /\ \A k \in 1..Len(rects) : Proportional(rects[k])

\* three children of positive sizes, not all the same, have been laid out in
\* a rectangle that is wider than high
ThreeChildrenLaidOut ==
    /\ rendered
    /\ width > height
    /\ Len(rects) = 3
    /\ \A k \in 1..3 : rects[k].node.sizeBytes > 0
    /\ \E k, l \in 1..3 : rects[k].node.sizeBytes # rects[l].node.sizeBytes

\* C17: no rectangle is returned for a child of size zero, so no rectangle of
\* area zero: neither in a branch of several zero-size nodes nor in a branch
\* that is a single zero-size node
NoRectForZeroSize ==
    rendered => \A k \in 1..Len(rects) :
                   /\ rects[k].node.sizeBytes > 0
                   /\ Greater(Area(rects[k]), Whole(0))

----------------------------------------------------------------------------
(* Properties of the search query and of the scan filters *)

\* the operator and the size of a size token, NoSize when there is none
SizeOperator(token) == SizeOperators[sizeMatch(token)]

SizeBound(token) ==
    IF sizeMatch(token) = 0 THEN NoSize
    ELSE parseSizeValue(sliceFrom(token, Len(SizePrefix) + Len(SizeOperator(token))))

\* the token sets the lower bound, the upper bound, the regular expression
SetsMin(token) ==
    SizeBound(token) # NoSize /\ SizeOperator(token) \in {<<">">>, <<">", "=">>, <<"=">>}

SetsMax(token) ==
    SizeBound(token) # NoSize /\ SizeOperator(token) \in {<<"<">>, <<"<", "=">>, <<"=">>}

SetsRegex(token) ==
    /\ sizeMatch(token) = 0
    /\ indexOf(token, ":") > 0
    /\ slice(token, 0, indexOf(token, ":")) = RegexKey
    /\ parseRegexToken(sliceFrom(token, indexOf(token, ":") + 1)) # NoRegex

\* what token i of a query asks of an entry: a size token a bound that includes
\* the value, a name: or path: token a substring of that field, an ext: token
\* one of the listed extensions, a regex: token a match in the path or the name,
\* any other token a substring of the name or the path. A size token without a
\* size and a regex: token without a valid pattern ask nothing, and of repeated
\* bounds and regular expressions the last occurrence counts.
Satisfies(e, tokens, i) ==
    LET token == toLowerCase(tokens[i])
        later == {toLowerCase(tokens[j]) : j \in (i + 1)..Len(tokens)}
        name == toLowerCase(e.name)
        path == toLowerCase(e.path)
        colonIndex == indexOf(token, ":")
        key == slice(token, 0, colonIndex)
        value == sliceFrom(token, colonIndex + 1)
        regex == parseRegexToken(value)
    IN IF sizeMatch(token) # 0
       THEN /\ (SetsMin(token) /\ ~\E t \in later : SetsMin(t))
                  => e.sizeBytes >= SizeBound(token)
            /\ (SetsMax(token) /\ ~\E t \in later : SetsMax(t))
                  => e.sizeBytes <= SizeBound(token)
       ELSE IF colonIndex > 0 /\ key = NameKey THEN includes(name, value)
       ELSE IF colonIndex > 0 /\ key = PathKey THEN includes(path, value)
       ELSE IF colonIndex > 0 /\ key = ExtKey
       THEN parseListInput(value) = <<>>
            \/ getPathExtension(path) \in Range(parseListInput(value))
       ELSE IF colonIndex > 0 /\ key = RegexKey
       THEN (SetsRegex(token) /\ ~\E t \in later : SetsRegex(t))
               => (test(regex, path).found \/ test(regex, name).found)
       ELSE includes(name, token) \/ includes(path, token)

\* C18: an entry matches the parsed query exactly when it satisfies every
\* token of the query
MatchesIffEveryToken ==
    (searchParsed /\ searchedEntry # NoEntry)
    => (isMatch <=> \A i \in 1..Len(queryTokens(searchQuery)) :
                       Satisfies(searchedEntry, queryTokens(searchQuery), i))

\* the file's name or path matches the text of a regex filter
RegexFilterMatches(text, f) ==
    /\ parseRegexToken(text) # NoRegex
    /\ \/ test(parseRegexToken(text), toLowerCase(f.path)).found
       \/ test(parseRegexToken(text), toLowerCase(f.name)).found

\* the file matches one of the exclude constraints of the filters
MatchesAnExclude(filters, f) ==
    \/ /\ getPathExtension(f.path) # <<>>
       /\ getPathExtension(f.path) \in Range(filters.excludeExtensions)
    \/ pathContainsAny(toLowerCase(f.path), filters.excludePaths)
    \/ RegexFilterMatches(filters.excludeRegex, f)

\* C19: a file that matches an exclude constraint (extension, path substring,
\* regex on name or path) is rejected
ExcludedFileRejected ==
    (filtersBuilt /\ filteredFile # NoFile /\ MatchesAnExclude(scanFilters, filteredFile))
    => ~isAccepted

\* the file satisfies every constraint category the filters supply
SatisfiesAllCategories(filters, f) ==
    LET ext == getPathExtension(f.path)
        name == toLowerCase(f.name)
        path == toLowerCase(f.path)
    IN /\ filters.includeExtensions # <<>> => ext \in Range(filters.includeExtensions)
       /\ ext = <<>> \/ ext \notin Range(filters.excludeExtensions)
       /\ filters.includeNames # <<>> => pathContainsAny(name, filters.includeNames)
       /\ ~pathContainsAny(name, filters.excludeNames)
       /\ filters.minSizeBytes # NoSize => f.sizeBytes >= filters.minSizeBytes
       /\ filters.maxSizeBytes # NoSize => f.sizeBytes <= filters.maxSizeBytes
       /\ filters.includePaths # <<>> => pathContainsAny(path, filters.includePaths)
       /\ ~pathContainsAny(path, filters.excludePaths)
       /\ parseRegexToken(filters.includeRegex) # NoRegex
             => RegexFilterMatches(filters.includeRegex, f)
       /\ ~RegexFilterMatches(filters.excludeRegex, f)

\* C20: the compiled filter accepts a file exactly when every supplied
\* constraint category is satisfied, name substrings and size bounds included
AcceptsIffAllCategories ==
    (filtersBuilt /\ filteredFile # NoFile)
    => (isAccepted <=> SatisfiesAllCategories(scanFilters, filteredFile))


----------------------------------------------------------------------------
(* Properties of the scan engine *)

RECURSIVE SumOver(_, _)
\* the sum of a counter over a set of nodes
SumOver(dirs, counter) ==
    IF dirs = {} THEN 0
    ELSE LET d == CHOOSE x \in dirs : TRUE
         IN counter[d] + SumOver(dirs \ {d}, counter)

RECURSIVE FilesBelow(_, _)
\* the number of files a snapshot holds in a node and in the nodes below it
FilesBelow(snap, d) ==
    Cardinality(snap.files[d])
    + SumOver(snap.children[d], [c \in snap.children[d] |-> FilesBelow(snap, c)])

RECURSIVE DirsBelow(_, _)
\* the number of nodes a snapshot holds below a node
DirsBelow(snap, d) ==
    SumOver(snap.children[d], [c \in snap.children[d] |-> 1 + DirsBelow(snap, c)])

----------------------------------------------------------------------------
(* Properties of local scans that follow each other *)

\* C22: after a local scan was cancelled and a new one started, an event of the
\* earlier scan changes neither the scanning flag nor the summary
EarlierRunEventNotApplied ==
    [][(applied'.run # 0 /\ applied'.run # currentRun')
       => (isScanning' = isScanning /\ summary' = summary)]_vars

\* C24: while a scan is in progress and no option, filter input or query
\* changes, the scan the client tracks is replaced only when the user starts one
NoRestartWithoutChange ==
    [][(isScanning /\ currentRun' # currentRun) => last'.op = "scan-request"]_vars


----------------------------------------------------------------------------
(* Properties of the pending list-request table *)

\* C23: the response for a registered id (list-complete, list-error or error)
\* and the timeout of that id remove the id from the pending table together
\* with its watchdog timer, and after every handler the ids of the table are
\* the ids with an armed timer
PendingListEntryRemoved ==
    [][/\ DOMAIN remoteListRequestMap' = remoteListTimeouts'
       /\ (/\ last'.op \in {"list-complete", "list-error", "error", "list-timeout"}
           /\ remoteSyncEnabled
           /\ last'.id \in DOMAIN remoteListRequestMap)
          => (/\ last'.id \notin DOMAIN remoteListRequestMap'
              /\ last'.id \notin remoteListTimeouts')]_vars


\* C25: at most one server of the list has status connected
AtMostOneConnected ==
    Cardinality({s \in Servers : remoteServers[s].status = "connected"}) <= 1


\* C26: once a local scan has ended, by a terminal event or by the failure of
\* its scan command, and no start is in flight, none of the listener sets
\* startScan registered is still subscribed
NoListenerAfterScanEnd ==
    (~isScanning /\ startPending = 0) => Listening = 0


----------------------------------------------------------------------------
(* Properties of the split of the layout recursion *)

RECURSIVE SplitSteps(_)
\* the node lists recursiveSplit is called with, from nodes downwards, that
\* hold two or more nodes of positive total size
SplitSteps(nodes) ==
    IF Len(nodes) < 2 \/ sumNodeSizes(nodes) <= 0 THEN {}
    ELSE LET sorted == sortBySize(nodes)
             splitIndex == getSplitIndex(sorted, sumNodeSizes(sorted))
         IN {nodes}
            \cup (IF splitIndex >= Len(sorted) THEN {}
                  ELSE SplitSteps(SubSeq(sorted, 1, splitIndex))
                       \cup SplitSteps(SubSeq(sorted, splitIndex + 1, Len(sorted))))

\* group A of a step is the shortest prefix of the descending order that holds
\* at least half of the total, and it leaves nodes for group B
SplitsAtHalf(nodes) ==
    LET sorted == sortBySize(nodes)
        total == sumNodeSizes(sorted)
        splitIndex == getSplitIndex(sorted, total)
    IN /\ \A i \in 1..(Len(sorted) - 1) : sorted[i].sizeBytes >= sorted[i + 1].sizeBytes
       /\ 1 <= splitIndex
       /\ splitIndex < Len(sorted)
       /\ 2 * sumNodeSizes(SubSeq(sorted, 1, splitIndex)) >= total
       /\ \A j \in 1..(splitIndex - 1) : 2 * sumNodeSizes(SubSeq(sorted, 1, j)) < total

\* C27: at every step of the layout recursion on two or more nodes of positive
\* total size, group A is the shortest prefix of the descending order whose
\* size is at least half the total, and both groups are non-empty and shorter
\* than the input
EverySplitAtHalf ==
    rendered => \A nodes \in SplitSteps(children) : SplitsAtHalf(nodes)

\* a layout of three nodes of the same size: group A holds two of them and is
\* split again
TwoLevelSplitRendered ==
    /\ rendered
    /\ Len(children) = 3
    /\ getSplitIndex(sortBySize(children), sumNodeSizes(children)) = 2
    /\ Cardinality(SplitSteps(children)) = 2
    /\ Len(rects) = 3


\* what a word, name: or path: token asks of an entry: a name: token its value
\* as a substring of the lower-cased name, a path: token its value as a
\* substring of the lower-cased path, a bare word itself as a substring of
\* either
TermAsks(e, rawToken) ==
    LET token == toLowerCase(rawToken)
        namePrefix == NameKey \o <<":">>
        pathPrefix == PathKey \o <<":">>
    IN IF startsWith(token, namePrefix)
       THEN includes(toLowerCase(e.name), sliceFrom(token, Len(namePrefix)))
       ELSE IF startsWith(token, pathPrefix)
       THEN includes(toLowerCase(e.path), sliceFrom(token, Len(pathPrefix)))
       ELSE includes(toLowerCase(e.name), token) \/ includes(toLowerCase(e.path), token)

\* C28: a bare word matches when it is a substring of the lower-cased name or
\* path, a name: or path: token is tested against the named field only, and of
\* repeated tokens every one has to match
TermsAllMatch ==
    (searchParsed /\ searchedEntry # NoEntry)
    => (isMatch <=> \A i \in 1..Len(queryTokens(searchQuery)) :
                       TermAsks(searchedEntry, queryTokens(searchQuery)[i]))

\* an entry matched by two different name: tokens and a bare word at once
RepeatedNameTokensMatched ==
    /\ searchParsed
    /\ searchedEntry = VacationPhoto
    /\ isMatch
    /\ Len(searchParams.nameTerms) = 2
    /\ searchParams.nameTerms[1] # searchParams.nameTerms[2]
    /\ Len(searchParams.terms) = 1


\* the row of SizeTokenPool that a token of a size query was written from
SizeTokenRow(token) ==
    CHOOSE r \in Range(SizeTokenPool) : r.text = token

RECURSIVE LastStated(_, _)
\* the bound (min or max) stated by the last token of the list that states it
LastStated(tokens, bound) ==
    IF Len(tokens) = 0 THEN NoSize
    ELSE IF SizeTokenRow(tokens[Len(tokens)])[bound] # NoSize
    THEN SizeTokenRow(tokens[Len(tokens)])[bound]
    ELSE LastStated(SubSeq(tokens, 1, Len(tokens) - 1), bound)

\* C29: of repeated size tokens the last occurrence determines each bound
\* independently, size=V sets both bounds to V, and sizes are read in binary
\* multiples of the unit, bytes when there is none
LastSizeTokenWins ==
    searchParsed
    => /\ searchParams.minSize = LastStated(queryTokens(searchQuery), "min")
       /\ searchParams.maxSize = LastStated(queryTokens(searchQuery), "max")

\* size>512 size<1.5kb size>10mb: the lower bound of the last token, the upper
\* bound of the only token that states one
LowerBoundReplacedUpperKept ==
    /\ searchParsed
    /\ Len(queryTokens(searchQuery)) = 3
    /\ queryTokens(searchQuery)[1] = SizeTokenPool[6].text
    /\ queryTokens(searchQuery)[3] = SizeTokenPool[1].text
    /\ searchParams.minSize = 10485760
    /\ searchParams.maxSize = 1536


\* every token of the size query states the size of the entry as its bound
EveryBoundIsTheSize(e, tokens) ==
    \A i \in 1..Len(tokens) :
        /\ SizeTokenRow(tokens[i]).min \in {NoSize, e.sizeBytes}
        /\ SizeTokenRow(tokens[i]).max \in {NoSize, e.sizeBytes}

\* C30: > and >= state the same inclusive lower bound, < and <= the same
\* inclusive upper bound: an entry of exactly V bytes matches size>V, size>=V,
\* size<V, size<=V and size=V
ExactSizeMatchesEveryOperator ==
    (searchParsed /\ searchedEntry # NoEntry
        /\ EveryBoundIsTheSize(searchedEntry, queryTokens(searchQuery)))
    => isMatch

\* the entry of exactly 10 MB searched with size>10mb size<10mb
ExactSizeSearchedStrictly ==
    /\ searchParsed
    /\ searchedEntry = PhotoJpg
    /\ Len(queryTokens(searchQuery)) = 2
    /\ queryTokens(searchQuery)[1] = SizeTokenPool[1].text
    /\ queryTokens(searchQuery)[2] = SizeTokenPool[3].text
    /\ searchParams.minSize = PhotoJpg.sizeBytes
    /\ searchParams.maxSize = PhotoJpg.sizeBytes
    /\ isMatch


\* the row of RegexTokenPool that a token of the query was written from
RegexTokenRow(token) ==
    CHOOSE r \in Range(RegexTokenPool) : r.text = token

RECURSIVE LastValidRegex(_)
\* the regular expression of the last token of the list that states a valid one
LastValidRegex(tokens) ==
    IF Len(tokens) = 0 THEN NoRegex
    ELSE IF RegexTokenRow(tokens[Len(tokens)]).valid
    THEN [source |-> RegexTokenRow(tokens[Len(tokens)]).source,
          flags |-> <<"i">>, lastIndex |-> 0]
    ELSE LastValidRegex(SubSeq(tokens, 1, Len(tokens) - 1))

\* the tokens of the list written from row k of RegexTokenPool
WrittenFrom(tokens, k) ==
    {i \in 1..Len(tokens) : tokens[i] = RegexTokenPool[k].text}

\* C31: a regex: token with an invalid pattern is ignored: the regular
\* expression in effect is that of the last valid regex: token, also when an
\* invalid one follows it, and the name: and size tokens of the query apply
\* as they do without it
InvalidRegexIgnored ==
    searchParsed
    => LET tokens == queryTokens(searchQuery)
       IN /\ searchParams.regex = LastValidRegex(tokens)
          /\ Len(searchParams.nameTerms) = Cardinality(WrittenFrom(tokens, 5))
          /\ \A i \in 1..Len(searchParams.nameTerms) :
                searchParams.nameTerms[i] = <<"v", "a", "c", "a", "t", "i", "o", "n">>
          /\ searchParams.minSize = IF WrittenFrom(tokens, 6) = {} THEN NoSize ELSE 10485760
          /\ searchParams.terms = <<>>

\* regex:photo, then a regex: token with an invalid pattern, then name:vacation
RegexKeptAfterInvalidToken ==
    /\ searchParsed
    /\ Len(queryTokens(searchQuery)) = 3
    /\ queryTokens(searchQuery)[1] = RegexTokenPool[1].text
    /\ ~RegexTokenRow(queryTokens(searchQuery)[2]).valid
    /\ queryTokens(searchQuery)[2] = RegexTokenPool[3].text
    /\ queryTokens(searchQuery)[3] = RegexTokenPool[5].text
    /\ searchParams.regex.source = <<"p", "h", "o", "t", "o">>
    /\ searchParams.nameTerms # <<>>


\* the servers in status connecting
ConnectingServers(servers) == {t \in Servers : servers[t].status = "connecting"}

\* C32: when the connect call fails for a server, that server's status becomes
\* error with the failure message as its last message, the panel shows the same
\* message, and the attempt leaves no server in status connecting
FailedConnectEndsInError ==
    [][\A s \in Servers :
          (last'.op = "connect-rejected" /\ last'.path = s)
          => (/\ remoteServers'[s].status = "error"
              /\ remoteServers'[s].lastMessage = ConnectFailedMsg
              /\ panelError' = remoteServers'[s].lastMessage
              /\ ConnectingServers(remoteServers')
                    \subseteq ConnectingServers(remoteServers) \ {s})]_vars

\* the connect call of server B has just failed while B was shown as connecting
ConnectFailureSeen ==
    /\ last.op = "connect-rejected"
    /\ last.path = "B"
    /\ remoteServers["B"].status = "error"
    /\ panelError = ConnectFailedMsg
    /\ ConnectingServers(remoteServers) = {}


\* C33: the delayed reset from complete to idle that a finished scan schedules
\* never sets the scan status to idle while a scan is in progress: the step
\* that starts a scan leaves no reset pending, and neither does a scan that
\* ends without completing
ResetNeverDuringScan ==
    [][/\ last'.op = "scan-complete-timeout"
          => (~isScanning /\ ~isScanning' /\ scanStatus = "complete")
       /\ (~isScanning /\ isScanning') => ~scanCompleteTimeout'
       /\ (isScanning /\ ~isScanning' /\ scanStatus' # "complete")
          => ~scanCompleteTimeout']_vars

\* a scan started from the history, that is after an earlier scan has
\* completed, with no reset pending
ScanStartedAfterCompletedScan ==
    /\ last.op = "scan-request"
    /\ scanHistory # <<>>
    /\ last.path = scanHistory[1]
    /\ isScanning
    /\ scanStatus = "scanning"
    /\ ~scanCompleteTimeout


----------------------------------------------------------------------------
(* Properties of the selection history, the scan history and the views *)

\* the entry a selection step has just selected, read from the selection
SelectedEntry(filePath, folderPath) ==
    IF filePath # NoPath THEN FileEntry(filePath, folderPath) ELSE FolderEntry(folderPath)

\* the smaller of two numbers
Smaller(a, b) == IF a < b THEN a ELSE b

\* C34: after any sequence of select-folder, select-file, back and forward
\* operations the selection history holds at most 50 entries and the current
\* index satisfies -1 <= index < length; a new selection that differs from
\* the current entry discards the forward entries, is appended, and becomes
\* the current (last) entry
SelectionHistoryBounded ==
    /\ [](/\ Len(selectionHistory) <= 50
          /\ -1 <= selectionHistoryIndex
          /\ selectionHistoryIndex < Len(selectionHistory))
    /\ [][LET entry == SelectedEntry(selectedFilePath', selectedPath')
              head == SubSeq(selectionHistory, 1, selectionHistoryIndex + 1)
              kept == Smaller(Len(head), 49)
          IN (/\ last'.op \in {"select-folder", "select-file"}
              /\ (head = <<>> \/ head[Len(head)] # entry))
             => (/\ Len(selectionHistory') = kept + 1
                 /\ SubSeq(selectionHistory', 1, kept)
                       = SubSeq(head, Len(head) - kept + 1, Len(head))
                 /\ selectionHistory'[kept + 1] = entry
                 /\ selectionHistoryIndex' = kept)]_vars

\* a selection in a history that was full: the oldest entry is gone and the
\* new entry is the last of 50
SelectedInFullHistory ==
    /\ last.op \in {"select-folder", "select-file"}
    /\ Len(selectionHistory) = 50
    /\ selectionHistory[1] # SelectionEntries[1]
    /\ selectionHistoryIndex = 49
    /\ selectionHistory[50] = SelectedEntry(selectedFilePath, selectedPath)


\* C35: after any sequence of addScanHistory and clearScanHistory calls the
\* scan history contains no duplicate path, holds at most 10 paths, and has
\* the most recently added path first
ScanHistoryRecentFirst ==
    /\ \A i, j \in DOMAIN scanHistory : scanHistory[i] = scanHistory[j] => i = j
    /\ Len(scanHistory) <= 10
    /\ last.op = "add-history" => (scanHistory # <<>> /\ scanHistory[1] = last.path)
    /\ last.op = "clear-history" => scanHistory = <<>>

\* the twelfth folder added to a history of ten: the two oldest are gone
OldestPathDropped ==
    /\ last.op = "add-history"
    /\ last.path = HistoryPaths[12]
    /\ Len(scanHistory) = 10
    /\ HistoryPaths[1] \notin Range(scanHistory)
    /\ HistoryPaths[2] \notin Range(scanHistory)


RECURSIVE SubtreeFiles(_)
\* the files of a node and of the nodes below it
SubtreeFiles(node) ==
    Range(node.files) \cup UNION {SubtreeFiles(node.children[i]) : i \in DOMAIN node.children}

\* the files of the subtree with a positive size that the predicate accepts
AcceptedFiles(node, include) ==
    {f \in SubtreeFiles(node) : f.sizeBytes > 0 /\ f.path \in include}

\* C36: getLargestFilesForNode(node, limit, include) returns, in non-increasing
\* size order, min(limit, k) files of the subtree, k being the number of files
\* of positive size that the include predicate accepts, and no file outside
\* the result is strictly larger than a file inside it
LargestFilesAreLargest ==
    largestComputed
    => LET accepted == AcceptedFiles(activeNode, shouldInclude)
           k == Cardinality(accepted)
       IN /\ \A i \in 1..(Len(largestFiles) - 1) :
                largestFiles[i].sizeBytes >= largestFiles[i + 1].sizeBytes
          /\ Len(largestFiles) = Smaller(largestLimit, k)
          /\ Range(largestFiles) \subseteq accepted
          /\ Cardinality(Range(largestFiles)) = Len(largestFiles)
          /\ \A f \in accepted \ Range(largestFiles), g \in Range(largestFiles) :
                f.sizeBytes <= g.sizeBytes

\* a list of two files out of four accepted ones, the larger first, where a
\* file found later in the walk took the place of a smaller one
LargerFileFoundLater ==
    /\ largestComputed
    /\ largestLimit = 2
    /\ Cardinality(AcceptedFiles(activeNode, shouldInclude)) = 4
    /\ Len(largestFiles) = 2
    /\ largestFiles[1].path = NodeFilePaths[3]
    /\ largestFiles[1].sizeBytes > largestFiles[2].sizeBytes
    /\ \E f \in Range(activeNode.files) :
          f.sizeBytes > 0 /\ f.path \in shouldInclude /\ f \notin Range(largestFiles)


\* floor(maxLength) of a maxLength given in halves, and 0 when that is negative
LengthAllowed(maxLengthHalves) ==
    IF maxLengthHalves \div 2 > 0 THEN maxLengthHalves \div 2 ELSE 0

\* C37: for every string and every maxLength, truncateMiddle(value, maxLength)
\* returns a string of length at most max(0, floor(maxLength)), and returns
\* the value unchanged when it already fits
TruncatedLabelFits ==
    labelTruncated
    => /\ Len(labelText) <= LengthAllowed(labelMaxLength)
       /\ (Len(labelValue) <= LengthAllowed(labelMaxLength)) => labelText = labelValue

============================================================================
